---- MODULE Spec2Model ----
(***************************************************************************)
(* A model of the chat page of MOOD ON (frontend_design/static/js/chat.js) *)
(* and of the shared helpers it uses: the session collection, the active   *)
(* session, the pending-message queue mirrored in localStorage, the        *)
(* pending-poll timer, and the asynchronous handlers (init, handleSend,    *)
(* switchSession, pollPending, loadSessionDetail) with their requests in   *)
(* flight.  The backend is modelled as far as the page observes it: a      *)
(* message list per session that only grows, a POST /api/chat/messages/    *)
(* that stores the user message, then the assistant reply, and answers the *)
(* page after that or fails before.  A GET reads the server when it is     *)
(* issued; its response reaches the page after an arbitrary delay, in any  *)
(* order.  Under Spec and FairSpec the user is logged in throughout.        *)
(*                                                                         *)
(* AuthSpec follows the shared helpers State and Auth (login flag in       *)
(* localStorage, sessionAuthenticated, requireLogin, syncSession, logout)  *)
(* through the chat page, My Page and the login page; DeleteSpec follows   *)
(* deleteSession of the chat page.                                         *)
(***************************************************************************)
EXTENDS Integers, Sequences, FiniteSets, Bags, TLC

\* ---------------------------------------------------------------- bounds
MaxSessions == 2    \* sessions the server holds at most (ids 1..MaxSessions)
MaxSends    == 2    \* handleSend invocations that pass the isSending gate
MaxInFlight == 2    \* GET /api/chat/sessions/{id}/ requests in flight together
MaxReloads  == 1    \* page reloads
MaxSkew     == 3    \* how far the server clock may be ahead of the client's
MaxSwitches == 1    \* sidebar clicks (switchSession calls)

VARIABLES
    sessions,           \* let sessions = []            (chat.js:3)
    currentSessionId,   \* let currentSessionId = null  (chat.js:4), 0 is null
    isSending,          \* let isSending = false        (chat.js:10)
    pendingMessages,    \* let pendingMessages = {}     (chat.js:12)
    pendingPollTimer,   \* let pendingPollTimer = null  (chat.js:13), 0 is null
    chatInputDisabled,  \* chatInput.disabled
    btnSendDisabled,    \* btnSend.disabled
    popupAlert,         \* showAlert was called since the page loaded
    storage,            \* localStorage item 'pendingMessages'
    activeTimers,       \* the interval timers of the page that are running
    pcInit,             \* init(): "sessions" while loadSessions awaits, "done"
    initReq,            \* the response to init's GET /api/chat/sessions/
    sends,              \* the handleSend invocations, in the order they began
    gets,               \* the loadSessionDetail calls awaiting their response (a bag)
    server,             \* the backend: session id -> its stored messages
    clock,              \* the client's Date.now()
    skew,               \* server clock minus client clock
    reloads,            \* page reloads so far
    switches,           \* sidebar clicks so far
    sessionAuthenticated, \* let sessionAuthenticated = false (part_001:273)
    local,              \* localStorage items moodon_<key>, by key
    loginPopup,         \* the element #login-required-popup is in the page
    location,           \* the page the browser shows: "chat", "mypage", "login"
    isLoggedIn,         \* let isLoggedIn = false  (chat.js:17)
    calls,              \* account and new-chat requests of the page in flight
    gated,              \* My Page passed its gate at load and bound its listeners
    pickerOpen,         \* the file picker of the chat page was opened
    serverSession,      \* the backend holds an authenticated session for the browser
    btnUploadImageDisabled, \* btnUploadImage.disabled
    uploadedImage,      \* let uploadedImage = null (chat.js:7), 0 is null
    uploadedFile,       \* let uploadedFile = null  (chat.js:8), 0 is null
    reader,             \* the files a FileReader of handleImageUpload is reading
    pageState           \* the variables of the script of another page than chat

vars == <<sessions, currentSessionId, isSending, pendingMessages,
          pendingPollTimer, chatInputDisabled, btnSendDisabled, btnUploadImageDisabled, popupAlert,
          storage, activeTimers, pcInit, initReq, sends, gets, server, clock,
          skew, reloads, switches, sessionAuthenticated, local, loginPopup,
          location, isLoggedIn, calls, gated, pickerOpen, serverSession,
          btnUploadImageDisabled, uploadedImage, uploadedFile, reader,
          pageState>>

\* The attachment of the chat page and the script of another page.
formVars == <<uploadedImage, uploadedFile, reader, pageState>>

\* No script but that of the chat page is followed.
NoScript == [page |-> "none"]

\* The chat page as it loads: no image is selected.
NoAttachment ==
    /\ btnUploadImageDisabled = FALSE
    /\ uploadedImage = 0
    /\ uploadedFile = 0
    /\ reader = {}

\* The state of the shared helpers (Auth, State) and of the pages around
\* the chat page.
authVars == <<sessionAuthenticated, local, loginPopup, location, isLoggedIn,
              calls, gated, pickerOpen, serverSession>>

\* ------------------------------------------------------------- messages
\* A message {id, role, created_at, _pending}.  xid is not a field of the
\* program: it names the exchange (the send, by its Date.now()) a message
\* belongs to, 0 for the history that predates the page.
Msg(id, role, at, pend, xid) ==
    [id |-> id, role |-> role, created_at |-> at, pending |-> pend, xid |-> xid]

tempUserId(now) == <<"temp-user", now>>
tempAssistantId(now) == <<"temp-assistant", now>>

\* The two temporary entries handleSend builds.
TempUser(now) == Msg(tempUserId(now), "user", now, FALSE, now)
TempAssistant(now) == Msg(tempAssistantId(now), "assistant", now + 1, TRUE, now)

\* What the backend stores for the exchange begun at client time `now`.
SrvUser(now, sk) == Msg(<<"srv-user", now>>, "user", now + sk, FALSE, now)
SrvAssistant(now, sk) ==
    Msg(<<"srv-assistant", now>>, "assistant", now + sk + 1, FALSE, now)

IsTemp(m) == m.id[1] \in {"temp-user", "temp-assistant"}

\* ----------------------------------------------- sortMessagesByCreatedAt
\* Array.prototype.sort is stable: equal timestamps keep their order.
InsertByCreatedAt(m, s) ==
    LET k == Cardinality({i \in 1..Len(s) : s[i].created_at <= m.created_at})
    IN SubSeq(s, 1, k) \o <<m>> \o SubSeq(s, k + 1, Len(s))

RECURSIVE sortMessagesByCreatedAt(_)
sortMessagesByCreatedAt(list) ==
    IF list = <<>> THEN <<>>
    ELSE InsertByCreatedAt(list[Len(list)],
                           sortMessagesByCreatedAt(SubSeq(list, 1, Len(list) - 1)))

IsSorted(s) == \A i \in 1..(Len(s) - 1) : s[i].created_at <= s[i + 1].created_at

\* normalizeSession: numeric id, messages sorted.
normalizeSession(id, rawMessages) ==
    [id |-> id, messages |-> sortMessagesByCreatedAt(rawMessages)]

\* ---------------------------------------------------- the pending queue
\* pendingMessages is an object keyed by String(sessionId).
KeyOf(sessionId) == ToString(sessionId)
NumberOf(key) == CHOOSE n \in 1..(MaxSessions + 1) : ToString(n) = key

EmptyMap == [k \in {} |-> <<>>]
NullItem == "null"      \* localStorage.getItem of an absent key

\* JSON.stringify of the map: its entries, integer-like keys ascending.
RECURSIVE StringifyKeys(_, _)
StringifyKeys(map, keys) ==
    IF keys = {} THEN <<>>
    ELSE LET k == CHOOSE x \in keys : \A y \in keys : NumberOf(x) <= NumberOf(y)
         IN <<[key |-> k, value |-> map[k]]>> \o StringifyKeys(map, keys \ {k})

JSONstringify(map) == StringifyKeys(map, DOMAIN map)

\* JSON.parse of such a text: an object with the entries' keys.
JSONparse(text) ==
    [k \in {text[i].key : i \in 1..Len(text)} |->
        (text[CHOOSE i \in 1..Len(text) : text[i].key = k]).value]

\* A definition below that uses an argument more than once binds it first, as
\* the one element of a set: TLC then evaluates the argument once, not once
\* per use, also where it evaluates an action inside a property.
Only(S) == CHOOSE x \in S : TRUE

Range(s) == {s[i] : i \in 1..Len(s)}

\* The queue as a pair: the map in memory and the item in localStorage.
\* An item that is not JSON: JSON.parse throws on it.
CorruptItem == "{1:["

\* loadPendingFromStorage(): the map parsed from the item, the empty map
\* of the catch block when JSON.parse throws.
loadPendingFromStorage(item) ==
    IF item = NullItem THEN JSONparse(<<>>)
    ELSE IF item = CorruptItem THEN EmptyMap
    ELSE JSONparse(item)

savePendingToStorage(map) ==
    Only({[mem |-> m, disk |-> JSONstringify(m)] : m \in {map}})

hasAnyPending(mem) == \E k \in DOMAIN mem : Len(mem[k]) > 0

\* addPending as it would be without its savePendingToStorage() call.
addPendingUnsaved(queue, sessionId, msgs) ==
    Only({[pq EXCEPT !.mem =
              [k \in DOMAIN pq.mem \cup {KeyOf(sessionId)} |->
                  IF k = KeyOf(sessionId)
                  THEN (IF k \in DOMAIN pq.mem THEN pq.mem[k] ELSE <<>>) \o msgs
                  ELSE pq.mem[k]]] : pq \in {queue}})

addPending(queue, sessionId, msgs) ==
    Only({savePendingToStorage(
              [k \in DOMAIN pq.mem \cup {KeyOf(sessionId)} |->
                  IF k = KeyOf(sessionId)
                  THEN (IF k \in DOMAIN pq.mem THEN pq.mem[k] ELSE <<>>) \o msgs
                  ELSE pq.mem[k]]) : pq \in {queue}})

clearPending(queue, sessionId) ==
    Only({IF KeyOf(sessionId) \in DOMAIN pq.mem
          THEN savePendingToStorage(
                   [k \in DOMAIN pq.mem \ {KeyOf(sessionId)} |-> pq.mem[k]])
          ELSE pq : pq \in {queue}})

getPendingCount(mem, sessionId) ==
    IF KeyOf(sessionId) \in DOMAIN mem THEN Len(mem[KeyOf(sessionId)]) ELSE 0

\* The filter as it would be if it tested the role of the pending entry only.
filteredPendingAnyRole(pendingList, serverMessages) ==
    LET Keep(m) == m.role \in {"assistant", "user"}
    IN SelectSeq(pendingList, Keep)

\* The filter of mergePending: a pending user entry stands while the server
\* has no user message, a pending assistant entry while it has no assistant
\* message.
filteredPending(pendingList, serverMessages) ==
    LET hasAssistant == \E i \in 1..Len(serverMessages) :
                            serverMessages[i].role = "assistant"
        hasUser == \E i \in 1..Len(serverMessages) :
                            serverMessages[i].role = "user"
        Keep(m) == IF m.role = "assistant" THEN ~hasAssistant
                   ELSE IF m.role = "user" THEN ~hasUser
                   ELSE FALSE
    IN SelectSeq(pendingList, Keep)

\* mergePending(session): the merged session and the queue after it.
mergePending(queue, sessionIn) ==
    Only({
        IF KeyOf(session.id) \notin DOMAIN pq.mem \/ Len(pq.mem[KeyOf(session.id)]) = 0
        THEN [session |-> session, pq |-> pq]
        ELSE Only({
            IF Len(filtered) = 0
            THEN [session |-> session, pq |-> clearPending(pq, session.id)]
            ELSE [session |->
                     [session EXCEPT !.messages =
                         sortMessagesByCreatedAt(@ \o filtered)],
                  pq |-> pq]
            : filtered \in {filteredPending(pq.mem[KeyOf(session.id)],
                                            session.messages)}})
        : pq \in {queue}, session \in {sessionIn}})

\* ------------------------------------------------- the page's own state
\* The state the handlers read and write, as one record, so that a handler
\* is the composition of the functions it calls.
Page ==
    [sessions |-> sessions, cur |-> currentSessionId, sending |-> isSending,
     chat |-> chatInputDisabled, btn |-> btnSendDisabled,
     upload |-> btnUploadImageDisabled,
     timer |-> pendingPollTimer, active |-> activeTimers,
     pq |-> [mem |-> pendingMessages, disk |-> storage], alert |-> popupAlert]

Commit(page) ==
    \E p \in {page} :
        /\ sessions' = p.sessions
        /\ currentSessionId' = p.cur
        /\ isSending' = p.sending
        /\ chatInputDisabled' = p.chat
        /\ btnSendDisabled' = p.btn
        /\ btnUploadImageDisabled' = p.upload
        /\ pendingPollTimer' = p.timer
        /\ activeTimers' = p.active
        /\ pendingMessages' = p.pq.mem
        /\ storage' = p.pq.disk
        /\ popupAlert' = p.alert

\* toggleInputDisabled(disabled); when enabling it ends with
\* updateAttachmentLock(), which sets chatInput.disabled and
\* btnUploadImage.disabled to isSending.
toggleInputDisabled(page, disabled) ==
    Only({[p EXCEPT !.btn = disabled,
                    !.chat = IF disabled THEN TRUE ELSE p.sending,
                    !.upload = IF disabled THEN TRUE ELSE p.sending]
          : p \in {page}})

showAlert(p) == [p EXCEPT !.alert = TRUE]

\* setInterval hands out an id no running timer has.
FreshTimer(active) == CHOOSE t \in 1..(Cardinality(active) + 1) : t \notin active

\* stopPendingPolling as it would be without its clearInterval() call.
stopPendingPollingNoClear(page) == [page EXCEPT !.timer = 0]

stopPendingPolling(page) ==
    Only({IF p.timer # 0
          THEN [p EXCEPT !.active = @ \ {p.timer}, !.timer = 0]
          ELSE p : p \in {page}})

\* startPendingPolling as it would be without its stopPendingPolling() call.
startPendingPollingNoStop(page) ==
    Only({IF ~hasAnyPending(q.pq.mem) THEN q
          ELSE Only({[q EXCEPT !.timer = t, !.active = @ \cup {t}]
                     : t \in {FreshTimer(q.active)}})
          : q \in {page}})

startPendingPolling(page) ==
    Only({IF ~hasAnyPending(q.pq.mem) THEN q
          ELSE Only({[q EXCEPT !.timer = t, !.active = @ \cup {t}]
                     : t \in {FreshTimer(q.active)}})
          : q \in {stopPendingPolling(page)}})

HasSession(list, id) == \E i \in 1..Len(list) : list[i].id = id
getSession(list, id) == list[CHOOSE i \in 1..Len(list) : list[i].id = id]

\* sessions.map(...) replacing the messages of the entries with this id.
WithMessages(list, sessionId, messages) ==
    [i \in 1..Len(list) |->
        IF list[i].id = sessionId THEN [list[i] EXCEPT !.messages = messages]
        ELSE list[i]]

pushMessageToSession(page, sessionId, msg) ==
    Only({IF HasSession(p.sessions, sessionId)
          THEN [p EXCEPT !.sessions =
                   WithMessages(@, sessionId,
                                Append(getSession(@, sessionId).messages, msg))]
          ELSE p : p \in {page}})

removePendingMessage(page, sessionId, pendingId) ==
    LET Keep(m) == m.id # pendingId
    IN Only({IF HasSession(p.sessions, sessionId)
             THEN [p EXCEPT !.sessions =
                      WithMessages(@, sessionId,
                                   SelectSeq(getSession(@, sessionId).messages, Keep))]
             ELSE p : p \in {page}})

\* loadSessionDetail(id) from the response on, when the fetch succeeded.
\* loadSessionDetail as it would be with push() in place of unshift().
loadSessionDetailPush(page, id, rawMessages) ==
    Only({
        Only({IF getPendingCount(q.pq.mem, id) > 0
              THEN startPendingPolling(
                       toggleInputDisabled([q EXCEPT !.sending = TRUE], TRUE))
              ELSE stopPendingPolling(
                       toggleInputDisabled([q EXCEPT !.sending = FALSE], FALSE))
              : q \in {[p EXCEPT
                         !.sessions = IF HasSession(@, id)
                                      THEN WithMessages(@, id, m.session.messages)
                                      ELSE @ \o <<m.session>>,
                         !.cur = id,
                         !.pq = m.pq]}})
        : p \in {page},
          m \in {mergePending(page.pq, normalizeSession(id, rawMessages))}})

loadSessionDetail(page, id, rawMessages) ==
    Only({
        Only({IF getPendingCount(q.pq.mem, id) > 0
              THEN startPendingPolling(
                       toggleInputDisabled([q EXCEPT !.sending = TRUE], TRUE))
              ELSE stopPendingPolling(
                       toggleInputDisabled([q EXCEPT !.sending = FALSE], FALSE))
              : q \in {[p EXCEPT
                         !.sessions = IF HasSession(@, id)
                                      THEN WithMessages(@, id, m.session.messages)
                                      ELSE <<m.session>> \o @,
                         !.cur = id,
                         !.pq = m.pq]}})
        : p \in {page},
          m \in {mergePending(page.pq, normalizeSession(id, rawMessages))}})

\* loadSessionDetail(id) when the fetch failed: the catch block.
loadSessionDetailFailed(p) == showAlert(p)

\* handleSend from "preserve current image" to the POST: the optimistic
\* messages, the queue, the lock and the timer (chat.js:723-777).
sendOptimistic(page, sessionId, now) ==
    Only({startPendingPolling(toggleInputDisabled(
              [p EXCEPT !.pq = addPending(@, sessionId,
                                          <<TempUser(now), TempAssistant(now)>>)],
              TRUE))
          : p \in {pushMessageToSession(
                       pushMessageToSession(page, sessionId, TempUser(now)),
                       sessionId, TempAssistant(now))}})

\* The finally block of handleSend.
sendFinally(page, sessionId) ==
    Only({toggleInputDisabled([p EXCEPT !.sending = FALSE],
                              getPendingCount(p.pq.mem, sessionId) > 0)
          : p \in {page}})

\* handleSend after its loadSessionDetail, when the POST had succeeded.
sendSucceeded(page, sessionId) ==
    sendFinally([page EXCEPT !.pq = clearPending(@, sessionId)], sessionId)

\* handleSend after its loadSessionDetail, when the POST had failed.
sendFailed(page, sessionId) == sendFinally(showAlert(page), sessionId)

\* pollPending after its loadSessionDetail.
pollDone(page) ==
    Only({IF ~hasAnyPending(p.pq.mem) THEN stopPendingPolling(p) ELSE p
          : p \in {page}})

\* ------------------------------------------------------------- requests
\* What stands for the answer to a GET of a session the backend does not
\* hold: fetchJson throws on it (part_001:263-268).
NotFound == <<Msg(<<"not-found", 0>>, "none", 0, FALSE, 0)>>

CanFetch == BagCardinality(gets) < MaxInFlight

\* GET /api/chat/sessions/{id}/ as loadSessionDetail issues it.  owner names
\* the caller that awaits it, inst the handleSend invocation (0 if none).
Fetch(id, owner, inst) ==
    [sid |-> id, owner |-> owner, inst |-> inst,
     msgs |-> IF id \in DOMAIN server THEN server[id] ELSE NotFound]

\* GET /api/chat/sessions/: every session with its messages.
SessionList ==
    [i \in 1..Cardinality(DOMAIN server) |-> [id |-> i, messages |-> server[i]]]

\* ----------------------------------------------------------------- Auth
\* The keys the shared helpers keep in localStorage under the prefix moodon_.
LocalKeys == {"isLoggedIn", "userEmail", "userPreferences", "favoriteProducts",
              "chat_sessions"}

\* localStorage.getItem() of a key that is not stored.
Absent == "<null>"

NoLocal == [k \in LocalKeys |-> Absent]

\* JavaScript values as State.get hands them out: the type of the value and
\* its text.
JSBool(b) == [type |-> "boolean", value |-> IF b THEN "true" ELSE "false"]

JSString(text) == [type |-> "string", value |-> text]

JSNull == [type |-> "null", value |-> "null"]

\* The e-mail My Page shows when none is stored.
DefaultEmail == "mountainstar03@gmail.com"

JSArray(text) == [type |-> "array", value |-> text]

JSObject(text) == [type |-> "object", value |-> text]

EmptyArray == JSArray("[]")

\* The style categories of the preference wizard and the reference board.
styleCategories ==
    <<"vintage", "luxury", "natural", "scandinavian", "french", "lovely",
      "pastel", "modern", "bohemian", "classic", "industrial", "minimal">>

MaxCategories == 4      \* the categories the user picks from
MaxSelected == 3        \* the cap of both toggleStyle functions

Styles == {styleCategories[i] : i \in 1..MaxCategories}

\* The lists of styles without a duplicate, up to one more than the cap.
StyleLists ==
    {l \in UNION {[1..n -> Styles] : n \in 0..(MaxSelected + 1)} :
        \A i, j \in 1..Len(l) : l[i] = l[j] => i = j}

RECURSIVE JoinStyles(_)
JoinStyles(l) ==
    IF Len(l) = 0 THEN ""
    ELSE IF Len(l) = 1 THEN l[1]
    ELSE l[1] \o "," \o JoinStyles(Tail(l))

\* JSON.stringify of the preferences object the wizard writes.
PreferencesText(styles) == "{styles:[" \o JoinStyles(styles) \o "]}"

\* JSON.stringify of a favorites array with one product.
FavoritesText == "[{id:1}]"

\* JSON.parse of the preferences texts: each text with its styles.
ParsedStyles == {[text |-> PreferencesText(l), styles |-> l] : l \in StyleLists}

\* The stored texts JSON.parse accepts as an array or as an object.
ArrayTexts == {"[]", FavoritesText}

ObjectTexts == {"{}"} \cup {e.text : e \in ParsedStyles}

\* State.get(key, defaultValue): JSON.parse of the stored text, the text
\* itself when it does not parse.
StateGet(ls, key, defaultValue) ==
    IF ls[key] = Absent THEN defaultValue
    ELSE IF ls[key] \in {"true", "false"} THEN JSBool(ls[key] = "true")
    ELSE IF ls[key] \in ArrayTexts THEN JSArray(ls[key])
    ELSE IF ls[key] \in ObjectTexts THEN JSObject(ls[key])
    ELSE JSString(ls[key])

\* userPreferences?.styles || []
StylesOf(userPreferences) ==
    IF /\ userPreferences.type = "object"
       /\ \E e \in ParsedStyles : e.text = userPreferences.value
    THEN (CHOOSE e \in ParsedStyles : e.text = userPreferences.value).styles
    ELSE <<>>

\* State.set(key, value) of a string value.
StateSet(ls, key, value) == [ls EXCEPT ![key] = value]

StateRemove(ls, key) == [ls EXCEPT ![key] = Absent]

\* The state the Auth helpers read and write.
AuthState ==
    [sa |-> sessionAuthenticated, ls |-> local, popup |-> loginPopup,
     calls |-> calls]

AuthCommit(auth) ==
    \E a \in {auth} :
        /\ sessionAuthenticated' = a.sa
        /\ local' = a.ls
        /\ loginPopup' = a.popup
        /\ calls' = a.calls

\* Auth.isLoggedIn()
AuthIsLoggedIn(a) ==
    \/ a.sa
    \/ StateGet(a.ls, "isLoggedIn", JSBool(FALSE)) \in {JSString("true"), JSBool(TRUE)}

showLoginPopup(a) == [a EXCEPT !.popup = TRUE]

\* Auth.requireLogin() as it would be without its prompt.
requireLoginSilent(a) ==
    IF ~AuthIsLoggedIn(a) THEN [auth |-> a, ok |-> FALSE]
    ELSE [auth |-> a, ok |-> TRUE]

\* Auth.requireLogin(): the state it leaves and the value it returns.
requireLogin(a) ==
    IF ~AuthIsLoggedIn(a) THEN [auth |-> showLoginPopup(a), ok |-> FALSE]
    ELSE [auth |-> a, ok |-> TRUE]

UserEmail == "user@moodon"

\* Auth.syncSession() after its fetch: res is "authenticated" (the backend
\* confirms the session), "rejected" (it answers is_authenticated false)
\* or "failed" (the fetch threw).
syncSession(a, res) ==
    CASE res = "authenticated" ->
           [auth |-> [a EXCEPT !.sa = TRUE,
                               !.ls = StateSet(StateSet(@, "isLoggedIn", "true"),
                                               "userEmail", UserEmail)],
            ok |-> TRUE]
      [] res = "rejected" ->
           [auth |-> [a EXCEPT !.sa = FALSE, !.ls = StateRemove(@, "isLoggedIn")],
            ok |-> FALSE]
      [] res = "failed" ->
           [auth |-> [a EXCEPT !.sa = FALSE], ok |-> FALSE]

\* Auth.login(email, password) after its fetch succeeded.
login(a) ==
    [a EXCEPT !.sa = TRUE,
              !.ls = StateSet(StateSet(@, "isLoggedIn", "true"),
                              "userEmail", UserEmail)]

\* The finally block of Auth.logout() as it would be if it kept the login flag.
logoutKeepsFlag(a) ==
    [a EXCEPT !.ls = StateRemove(StateRemove(StateRemove(StateRemove(
                         @, "userEmail"), "userPreferences"),
                         "favoriteProducts"), "chat_sessions")]

\* The finally block of Auth.logout(), up to the navigation.
logout(a) ==
    [a EXCEPT !.ls = StateRemove(StateRemove(StateRemove(StateRemove(StateRemove(
                         @, "isLoggedIn"), "userEmail"), "userPreferences"),
                         "favoriteProducts"), "chat_sessions")]

\* ----------------------------------------------------------------- Init
\* The page has just loaded for the first time: init() has read the empty
\* storage and awaits loadSessions.  The backend holds session 1 with one
\* earlier exchange.
Init ==
    /\ skew \in {0, MaxSkew}
    /\ clock = 3
    /\ server = [i \in {1} |-> <<SrvUser(1, skew), SrvAssistant(1, skew)>>]
    /\ sessions = <<>>
    /\ currentSessionId = 0
    /\ isSending = FALSE
    /\ pendingMessages = loadPendingFromStorage(NullItem)
    /\ pendingPollTimer = 0
    /\ chatInputDisabled = FALSE
    /\ btnSendDisabled = FALSE
    /\ popupAlert = FALSE
    /\ storage = NullItem
    /\ activeTimers = {}
    /\ pcInit = "sessions"
    /\ initReq = [i \in {1} |-> [id |-> 1, messages |-> server[1]]]
    /\ sends = <<>>
    /\ gets = EmptyBag
    /\ reloads = 0
    /\ switches = 0
    /\ sessionAuthenticated = TRUE
    /\ local = login([sa |-> FALSE, ls |-> NoLocal, popup |-> FALSE, calls |-> {}]).ls
    /\ loginPopup = FALSE
    /\ location = "chat"
    /\ isLoggedIn = TRUE
    /\ calls = {}
    /\ gated = FALSE
    /\ pickerOpen = FALSE
    /\ serverSession = TRUE
    /\ NoAttachment
    /\ pageState = NoScript

\* -------------------------------------------------------------- actions
\* init(): loadSessions got its list; then the timer is started if the
\* queue read from storage is not empty (chat.js:241-242, 315-324).
InitSessionsLoaded ==
    /\ pcInit = "sessions"
    /\ serverSession
    /\ LET list == [i \in 1..Len(initReq) |->
                       normalizeSession(initReq[i].id, initReq[i].messages)]
           p1 == [Page EXCEPT !.sessions = list, !.cur = 0]
       IN Commit(IF hasAnyPending(p1.pq.mem) THEN startPendingPolling(p1) ELSE p1)
    /\ pcInit' = "done"
    /\ UNCHANGED <<initReq, sends, gets, server, clock, skew, authVars, reloads, switches>>
    /\ UNCHANGED formVars

\* init(): loadSessions' fetch failed (chat.js:325-328), init goes on.
InitSessionsFailed ==
    /\ pcInit = "sessions"
    /\ Commit(IF hasAnyPending(Page.pq.mem) THEN startPendingPolling(Page) ELSE Page)
    /\ pcInit' = "done"
    /\ UNCHANGED <<initReq, sends, gets, server, clock, skew, authVars, reloads, switches>>
    /\ UNCHANGED formVars

\* The send button is clicked or Enter is pressed in the chat input.
CanInvokeSend == location = "chat" /\ (~btnSendDisabled \/ ~chatInputDisabled)

\* A handleSend invocation: its session, its Date.now(), where it stands,
\* what the backend has of its POST, and the file its FormData carries
\* (0 is none).
SendRecord(sid, now, pc, srv, image) ==
    [sid |-> sid, now |-> now, pc |-> pc, srv |-> srv, image |-> image]

\* handleSend with an active session, up to its POST /api/chat/messages/.
HandleSend ==
    /\ CanInvokeSend
    /\ requireLogin(AuthState).ok
    /\ ~isSending
    /\ Len(sends) < MaxSends
    /\ currentSessionId # 0
    /\ LET p1 == toggleInputDisabled([Page EXCEPT !.sending = TRUE], TRUE)
       IN Commit(sendOptimistic(p1, currentSessionId, clock))
    /\ sends' = Append(sends, SendRecord(currentSessionId, clock, "post", "sent",
                                         uploadedFile))
    /\ uploadedImage' = 0
    /\ clock' = clock + 2
    /\ UNCHANGED <<pcInit, initReq, gets, server, skew, authVars, reloads, switches,
                   uploadedFile, reader, pageState>>

\* handleSend with no active session, up to ensureSession's createNewSession.
HandleSendNoSession ==
    /\ CanInvokeSend
    /\ requireLogin(AuthState).ok
    /\ ~isSending
    /\ Len(sends) < MaxSends
    /\ currentSessionId = 0
    /\ Commit(toggleInputDisabled([Page EXCEPT !.sending = TRUE], TRUE))
    /\ sends' = Append(sends, SendRecord(0, 0, "create", "none", 0))
    /\ UNCHANGED <<pcInit, initReq, gets, server, clock, skew, authVars, reloads, switches>>
    /\ UNCHANGED formVars

\* createNewSession succeeded (POST then GET of the new, empty session);
\* handleSend goes on to its POST (chat.js:380-390, 307, 723-794).
CreateSessionDone(i) ==
    /\ sends[i].pc = "create"
    /\ serverSession
    /\ Cardinality(DOMAIN server) < MaxSessions
    /\ LET newId == Cardinality(DOMAIN server) + 1
           sessionObj == normalizeSession(newId, <<>>)
           Other(s) == s.id # newId
           p1 == [Page EXCEPT !.sessions = <<sessionObj>> \o SelectSeq(@, Other),
                              !.cur = newId]
       IN /\ Commit(sendOptimistic(p1, newId, clock))
          /\ server' = [k \in DOMAIN server \cup {newId} |->
                           IF k = newId THEN <<>> ELSE server[k]]
          /\ sends' = [sends EXCEPT ![i] = SendRecord(newId, clock, "post", "sent",
                                                      uploadedFile)]
    /\ uploadedImage' = 0
    /\ clock' = clock + 2
    /\ UNCHANGED <<pcInit, initReq, gets, skew, authVars, reloads, switches,
                   uploadedFile, reader, pageState>>

\* createNewSession failed: it alerts and throws, ensureSession alerts and
\* returns null, handleSend unlocks and returns (chat.js:391-393, 308-311,
\* 717-721).
CreateSessionFailed(i) ==
    /\ sends[i].pc = "create"
    /\ Commit(toggleInputDisabled([showAlert(Page) EXCEPT !.sending = FALSE], FALSE))
    /\ sends' = [sends EXCEPT ![i].pc = "done"]
    /\ UNCHANGED <<pcInit, initReq, gets, server, clock, skew, authVars, reloads, switches>>
    /\ UNCHANGED formVars

\* The backend stores the user message of a POST it received.
ServerStoreUser(i) ==
    /\ sends[i].srv = "sent"
    /\ server' = [server EXCEPT ![sends[i].sid] =
                     Append(@, SrvUser(sends[i].now, skew))]
    /\ sends' = [sends EXCEPT ![i].srv = "user"]
    /\ UNCHANGED <<sessions, currentSessionId, isSending, pendingMessages,
                   pendingPollTimer, chatInputDisabled, btnSendDisabled,
                   btnUploadImageDisabled,
                   popupAlert, storage, activeTimers, pcInit, initReq, gets,
                   clock, skew, authVars, reloads, switches>>
    /\ UNCHANGED formVars

\* The backend stores the assistant's reply.
ServerStoreAssistant(i) ==
    /\ sends[i].srv = "user"
    /\ server' = [server EXCEPT ![sends[i].sid] =
                     Append(@, SrvAssistant(sends[i].now, skew))]
    /\ sends' = [sends EXCEPT ![i].srv = "both"]
    /\ UNCHANGED <<sessions, currentSessionId, isSending, pendingMessages,
                   pendingPollTimer, chatInputDisabled, btnSendDisabled,
                   btnUploadImageDisabled,
                   popupAlert, storage, activeTimers, pcInit, initReq, gets,
                   clock, skew, authVars, reloads, switches>>
    /\ UNCHANGED formVars

\* The POST resolved with res.ok: handleSend sets the active session and
\* calls loadSessionDetail (chat.js:795-802).
PostOk(i) ==
    /\ sends[i].pc = "post"
    /\ sends[i].srv = "both"
    /\ CanFetch
    /\ Commit([Page EXCEPT !.cur = sends[i].sid])
    /\ gets' = gets (+) SetToBag({Fetch(sends[i].sid, "sendok", i)})
    /\ sends' = [sends EXCEPT ![i].pc = "refetch"]
    /\ UNCHANGED <<pcInit, initReq, server, clock, skew, authVars, reloads, switches>>
    /\ UNCHANGED formVars

\* The POST rejected or answered with an error status: the catch block
\* removes the placeholder and calls loadSessionDetail (chat.js:808-810).
PostFail(i) ==
    /\ sends[i].pc = "post"
    /\ sends[i].srv \in {"sent", "user"}
    /\ CanFetch
    /\ Commit(removePendingMessage(Page, sends[i].sid, tempAssistantId(sends[i].now)))
    /\ gets' = gets (+) SetToBag({Fetch(sends[i].sid, "sendfail", i)})
    /\ sends' = [sends EXCEPT ![i].pc = "refetch", ![i].srv = "failed"]
    /\ UNCHANGED <<pcInit, initReq, server, clock, skew, authVars, reloads, switches>>
    /\ UNCHANGED formVars

\* switchSession(id): a session of the sidebar is clicked.
SwitchSession(id) ==
    /\ HasSession(sessions, id)
    /\ switches < MaxSwitches
    /\ CanFetch
    /\ gets' = gets (+) SetToBag({Fetch(id, "switch", 0)})
    /\ UNCHANGED <<sessions, currentSessionId, isSending, pendingMessages,
                   pendingPollTimer, chatInputDisabled, btnSendDisabled,
                   btnUploadImageDisabled,
                   popupAlert, storage, activeTimers, pcInit, initReq, sends,
                   server, clock, skew, authVars, reloads>>
    /\ switches' = switches + 1
    /\ UNCHANGED formVars

\* An interval timer fires pollPending, which stops polling.
PollStop(t) ==
    /\ t \in activeTimers
    /\ ~hasAnyPending(pendingMessages) \/ currentSessionId = 0
    /\ Commit(stopPendingPolling(Page))
    /\ UNCHANGED <<pcInit, initReq, sends, gets, server, clock, skew, authVars, reloads, switches>>
    /\ UNCHANGED formVars

\* An interval timer fires pollPending, which calls loadSessionDetail.
PollFetch(t) ==
    /\ t \in activeTimers
    /\ hasAnyPending(pendingMessages)
    /\ currentSessionId # 0
    /\ CanFetch
    /\ gets' = gets (+) SetToBag({Fetch(currentSessionId, "poll", 0)})
    /\ UNCHANGED <<sessions, currentSessionId, isSending, pendingMessages,
                   pendingPollTimer, chatInputDisabled, btnSendDisabled,
                   btnUploadImageDisabled,
                   popupAlert, storage, activeTimers, pcInit, initReq, sends,
                   server, clock, skew, authVars, reloads, switches>>
    /\ UNCHANGED formVars

\* What the caller of loadSessionDetail does when it returns.
afterDetail(p, g) ==
    CASE g.owner = "switch"   -> p
      [] g.owner = "poll"     -> pollDone(p)
      [] g.owner = "sendok"   -> sendSucceeded(p, sends[g.inst].sid)
      [] g.owner = "sendfail" -> sendFailed(p, sends[g.inst].sid)
      [] g.owner = "delete"   -> p

SendsAfter(g) ==
    IF g.inst # 0 /\ g.owner # "delete"
    THEN [sends EXCEPT ![g.inst].pc = "done"] ELSE sends

\* A detail response arrives: loadSessionDetail applies it and returns to
\* its caller.
DetailOk(g) ==
    /\ BagIn(g, gets)
    /\ g.msgs # NotFound
    /\ Commit(afterDetail(loadSessionDetail(Page, g.sid, g.msgs), g))
    /\ gets' = gets (-) SetToBag({g})
    /\ sends' = SendsAfter(g)
    /\ uploadedFile' = IF g.owner = "sendok" THEN 0 ELSE uploadedFile
    /\ UNCHANGED <<pcInit, initReq, server, clock, skew, authVars, reloads, switches,
                   uploadedImage, reader, pageState>>

\* A detail request fails: loadSessionDetail alerts and returns.
DetailFailed(g) ==
    /\ BagIn(g, gets)
    /\ Commit(afterDetail(loadSessionDetailFailed(Page), g))
    /\ gets' = gets (-) SetToBag({g})
    /\ sends' = SendsAfter(g)
    /\ uploadedFile' = IF g.owner = "sendok" THEN 0 ELSE uploadedFile
    /\ UNCHANGED <<pcInit, initReq, server, clock, skew, authVars, reloads, switches,
                   uploadedImage, reader, pageState>>

\* The page is reloaded: its memory, timers and awaiting handlers are gone,
\* localStorage and the backend stay; init() runs up to loadSessions' fetch.
Reload ==
    /\ reloads < MaxReloads
    /\ reloads' = reloads + 1
    /\ switches' = switches
    /\ sessions' = <<>>
    /\ currentSessionId' = 0
    /\ isSending' = FALSE
    /\ pendingMessages' = loadPendingFromStorage(storage)
    /\ pendingPollTimer' = 0
    /\ chatInputDisabled' = FALSE
    /\ btnSendDisabled' = FALSE
    /\ btnUploadImageDisabled' = FALSE
    /\ uploadedImage' = 0
    /\ uploadedFile' = 0
    /\ reader' = {}
    /\ popupAlert' = FALSE
    /\ activeTimers' = {}
    /\ pcInit' = "sessions"
    /\ initReq' = SessionList
    /\ gets' = EmptyBag
    /\ sends' = [i \in 1..Len(sends) |->
                    IF sends[i].pc = "done" THEN sends[i]
                    ELSE [sends[i] EXCEPT !.pc = "dead"]]
    /\ UNCHANGED <<storage, server, clock, skew, authVars, pageState>>

Next ==
    \/ InitSessionsLoaded
    \/ InitSessionsFailed
    \/ HandleSend
    \/ HandleSendNoSession
    \/ \E i \in 1..Len(sends) : CreateSessionDone(i)
    \/ \E i \in 1..Len(sends) : CreateSessionFailed(i)
    \/ \E i \in 1..Len(sends) : ServerStoreUser(i)
    \/ \E i \in 1..Len(sends) : ServerStoreAssistant(i)
    \/ \E i \in 1..Len(sends) : PostOk(i)
    \/ \E i \in 1..Len(sends) : PostFail(i)
    \/ \E id \in 1..MaxSessions : SwitchSession(id)
    \/ \E t \in activeTimers : PollStop(t)
    \/ \E t \in activeTimers : PollFetch(t)
    \/ \E g \in BagToSet(gets) : DetailOk(g)
    \/ \E g \in BagToSet(gets) : DetailFailed(g)
    \/ Reload

Spec == Init /\ [][Next]_vars

\* ------------------------------------------- the pages around the chat
MaxVisits == 2      \* pages the user opens by their address

chatVars == <<sessions, currentSessionId, isSending, pendingMessages,
              pendingPollTimer, chatInputDisabled, btnSendDisabled, btnUploadImageDisabled, popupAlert,
              storage, activeTimers, pcInit, initReq, sends, gets, server,
              clock, skew, reloads, switches>>

\* The pages whose script starts with the gate Auth.requireLogin().
GatedPages == {"mypage", "board"}

\* The state a page's script starts with: what it reads from localStorage
\* before its first handler runs.  The chat page keeps its state in the
\* chat variables, its list of favorites is not followed; a gated page whose
\* gate fails has returned before it.
Script(loc, ok, ls) ==
    CASE loc = "mypage" /\ ok ->
           [page |-> "mypage",
            userEmail |-> StateGet(ls, "userEmail", JSString(DefaultEmail)),
            userPreferences |-> StateGet(ls, "userPreferences", JSNull),
            favoriteProducts |-> StateGet(ls, "favoriteProducts", EmptyArray)]
      [] loc = "board" /\ ok ->
           [page |-> "board",
            userPreferences |-> StateGet(ls, "userPreferences", JSNull),
            userEmail |-> StateGet(ls, "userEmail", JSString("")),
            selectedStyles |-> StylesOf(StateGet(ls, "userPreferences", JSNull))]
      [] loc = "preference" ->
           [page |-> "preference", step |-> 1, selectedStyles |-> <<>>]
      [] OTHER -> NoScript

\* The browser loads the page loc; a is the Auth state the page before
\* leaves behind, of which localStorage stays.  The scripts start afresh:
\* the chat page reads the pending map and calls Auth.syncSession()
\* (chat.js:229-232), My Page runs its gate (part_000:7).
LoadPage(loc, a) ==
    \E fresh \in {[a EXCEPT !.sa = FALSE, !.popup = FALSE, !.calls = {}]} :
      \E gate \in {requireLogin(fresh)} :
        /\ location' = loc
        /\ AuthCommit(CASE loc \in GatedPages -> gate.auth
                        [] loc = "chat"      -> [fresh EXCEPT !.calls = {"session"}]
                        [] OTHER             -> fresh)
        /\ gated' = (loc \in GatedPages /\ gate.ok)
        /\ isLoggedIn' = FALSE
        /\ pickerOpen' = FALSE
        /\ sessions' = <<>>
        /\ currentSessionId' = 0
        /\ isSending' = FALSE
        /\ pendingMessages' = IF loc = "chat" THEN loadPendingFromStorage(storage)
                               ELSE EmptyMap
        /\ pendingPollTimer' = 0
        /\ chatInputDisabled' = FALSE
        /\ btnSendDisabled' = FALSE
        /\ btnUploadImageDisabled' = FALSE
        /\ uploadedImage' = 0
        /\ uploadedFile' = 0
        /\ reader' = {}
        /\ pageState' = Script(loc, gate.ok, fresh.ls)
        /\ popupAlert' = FALSE
        /\ activeTimers' = {}
        /\ pcInit' = IF loc = "chat" THEN "sync" ELSE "off"
        /\ initReq' = <<>>
        /\ gets' = EmptyBag
        /\ sends' = [i \in 1..Len(sends) |->
                        IF sends[i].pc = "done" THEN sends[i]
                        ELSE [sends[i] EXCEPT !.pc = "dead"]]
        /\ UNCHANGED <<storage, server, clock, skew, switches>>

\* The user opens a page by its address.
Visit(loc) ==
    /\ reloads < MaxVisits
    /\ reloads' = reloads + 1
    /\ LoadPage(loc, AuthState)
    /\ UNCHANGED serverSession

\* init() of the chat page after Auth.syncSession() returned (chat.js:232-241):
\* it goes on to loadSessions, or to the login page if the user is not
\* logged in.
SyncDone(res) ==
    /\ location = "chat"
    /\ pcInit = "sync"
    /\ "session" \in calls
    /\ res = "authenticated" => serverSession
    /\ res = "rejected" => ~serverSession
    /\ \E r \in {syncSession([AuthState EXCEPT !.calls = @ \ {"session"}], res)} :
          IF r.ok \/ AuthIsLoggedIn(r.auth)
          THEN /\ AuthCommit(r.auth)
               /\ isLoggedIn' = TRUE
               /\ pcInit' = "sessions"
               /\ initReq' = SessionList
               /\ UNCHANGED <<sessions, currentSessionId, isSending,
                              pendingMessages, pendingPollTimer,
                              chatInputDisabled, btnSendDisabled, btnUploadImageDisabled, popupAlert,
                              storage, activeTimers, sends, gets, server, clock,
                              skew, reloads, switches, location, gated,
                              pickerOpen, formVars>>
          ELSE LoadPage("login", r.auth) /\ UNCHANGED reloads
    /\ UNCHANGED serverSession

SyncConfirmed == SyncDone("authenticated")

SyncRejected == SyncDone("rejected")

SyncFailed == SyncDone("failed")

\* A handler of the chat page whose gate fails: it prompts and returns
\* (chat.js:276, 378, 697).
Denied ==
    /\ location = "chat"
    /\ ~requireLogin(AuthState).ok
    /\ AuthCommit(requireLogin(AuthState).auth)
    /\ UNCHANGED <<chatVars, location, isLoggedIn, gated, pickerOpen, serverSession>>
    /\ UNCHANGED formVars

\* handleSend() by a user who is not logged in.
HandleSendDenied == CanInvokeSend /\ Denied

\* The click on btn-upload-image as it would be without its gate.
OpenImagePickerUngated ==
    /\ location = "chat"
    /\ ~btnUploadImageDisabled
    /\ pickerOpen' = TRUE
    /\ UNCHANGED <<chatVars, sessionAuthenticated, local, loginPopup, location,
                   isLoggedIn, calls, gated, serverSession>>
    /\ UNCHANGED formVars

\* The click on btn-upload-image: past the gate it opens the file picker
\* (chat.js:275-280).
OpenImagePicker ==
    /\ location = "chat"
    /\ ~btnUploadImageDisabled
    /\ requireLogin(AuthState).ok
    /\ pickerOpen' = TRUE
    /\ UNCHANGED <<chatVars, sessionAuthenticated, local, loginPopup, location,
                   isLoggedIn, calls, gated, serverSession>>
    /\ UNCHANGED formVars

OpenImagePickerDenied == ~btnUploadImageDisabled /\ Denied

\* The click on btn-new-chat: createNewSession() up to its POST
\* (chat.js:255, 377-380).
NewChat ==
    /\ location = "chat"
    /\ requireLogin(AuthState).ok
    /\ "newchat" \notin calls
    /\ calls' = calls \cup {"newchat"}
    /\ UNCHANGED <<chatVars, sessionAuthenticated, local, loginPopup, location,
                   isLoggedIn, gated, pickerOpen, serverSession>>
    /\ UNCHANGED formVars

NewChatDenied == Denied

\* createNewSession() of the button after its two fetches (chat.js:381-390).
NewChatDone ==
    /\ "newchat" \in calls
    /\ serverSession
    /\ Cardinality(DOMAIN server) < MaxSessions
    /\ LET newId == Cardinality(DOMAIN server) + 1
           sessionObj == normalizeSession(newId, <<>>)
           Other(s) == s.id # newId
       IN /\ Commit([Page EXCEPT !.sessions = <<sessionObj>> \o SelectSeq(@, Other),
                                 !.cur = newId])
          /\ server' = [k \in DOMAIN server \cup {newId} |->
                           IF k = newId THEN <<>> ELSE server[k]]
    /\ calls' = calls \ {"newchat"}
    /\ UNCHANGED <<pcInit, initReq, sends, gets, clock, skew, reloads, switches,
                   sessionAuthenticated, local, loginPopup, location,
                   isLoggedIn, gated, pickerOpen, serverSession>>
    /\ UNCHANGED formVars

\* createNewSession() of the button when a fetch failed (chat.js:391-394).
NewChatFailed ==
    /\ "newchat" \in calls
    /\ Commit(showAlert(Page))
    /\ calls' = calls \ {"newchat"}
    /\ UNCHANGED <<pcInit, initReq, sends, gets, server, clock, skew, reloads,
                   switches, sessionAuthenticated, local, loginPopup, location,
                   isLoggedIn, gated, pickerOpen, serverSession>>
    /\ UNCHANGED formVars

\* The click on the logout button of the header: Auth.logout() up to its
\* fetch (chat.js:479, part_000:76, part_001:294-296).
LogoutClick ==
    /\ \/ location = "chat" /\ isLoggedIn
       \/ location = "mypage" /\ gated
    /\ "logout" \notin calls
    /\ calls' = calls \cup {"logout"}
    /\ UNCHANGED <<chatVars, sessionAuthenticated, local, loginPopup, location,
                   isLoggedIn, gated, pickerOpen, serverSession>>
    /\ UNCHANGED formVars

\* Auth.logout() after its fetch, which succeeded (ok) or threw: the
\* finally block and the navigation to /login/ (part_001:297-306).
LogoutDone(ok) ==
    /\ "logout" \in calls
    /\ serverSession' = (serverSession /\ ~ok)
    /\ LoadPage("login", logout(AuthState))
    /\ UNCHANGED reloads

\* The click on btn-confirm-delete-account of My Page, up to its fetch
\* (part_000:57-62).
DeleteAccountClick ==
    /\ location = "mypage"
    /\ gated
    /\ calls = {}
    /\ calls' = {"delete"}
    /\ UNCHANGED <<chatVars, sessionAuthenticated, local, loginPopup, location,
                   isLoggedIn, gated, pickerOpen, serverSession>>
    /\ UNCHANGED formVars

\* The backend deleted the account; the handler calls Auth.logout()
\* (part_000:62-63).
DeleteAccountOk ==
    /\ "delete" \in calls
    /\ serverSession
    /\ serverSession' = FALSE
    /\ calls' = (calls \ {"delete"}) \cup {"logout"}
    /\ UNCHANGED <<chatVars, sessionAuthenticated, local, loginPopup, location,
                   isLoggedIn, gated, pickerOpen>>
    /\ UNCHANGED formVars

\* The deletion call failed: the handler alerts (part_000:64-67).
DeleteAccountFailed ==
    /\ "delete" \in calls
    /\ calls' = calls \ {"delete"}
    /\ UNCHANGED <<chatVars, sessionAuthenticated, local, loginPopup, location,
                   isLoggedIn, gated, pickerOpen, serverSession>>
    /\ UNCHANGED formVars

\* handleLogin() of the login page up to Auth.login's fetch (part_002:44-64).
LoginSubmit ==
    /\ location = "login"
    /\ calls = {}
    /\ calls' = {"login"}
    /\ UNCHANGED <<chatVars, sessionAuthenticated, local, loginPopup, location,
                   isLoggedIn, gated, pickerOpen, serverSession>>
    /\ UNCHANGED formVars

\* The backend accepted the credentials: Auth.login() marks the state and
\* handleLogin navigates to the chat page (part_001:288-292, part_002:65).
LoginOk ==
    /\ "login" \in calls
    /\ serverSession' = TRUE
    /\ LoadPage("chat", login(AuthState))
    /\ UNCHANGED reloads

\* The login call failed (part_002:66-67).
LoginFailed ==
    /\ "login" \in calls
    /\ calls' = calls \ {"login"}
    /\ UNCHANGED <<chatVars, sessionAuthenticated, local, loginPopup, location,
                   isLoggedIn, gated, pickerOpen, serverSession>>
    /\ UNCHANGED formVars

\* The backend's session ends (it expires, or another browser tab logs out).
SessionExpires ==
    /\ serverSession
    /\ serverSession' = FALSE
    /\ UNCHANGED <<chatVars, sessionAuthenticated, local, loginPopup, location,
                   isLoggedIn, calls, gated, pickerOpen>>
    /\ UNCHANGED formVars

\* What an earlier visit of a logged-in user left in localStorage: the
\* login flag and e-mail, the preferences and the favorites.
LeftLocal ==
    [k \in LocalKeys |->
        CASE k = "isLoggedIn"       -> "true"
          [] k = "userEmail"        -> UserEmail
          [] k = "userPreferences"  -> "{}"
          [] k = "favoriteProducts" -> "[]"
          [] OTHER                  -> Absent]

\* A pending map a chat page left in localStorage: one exchange of session 1.
LeftPending == addPending([mem |-> EmptyMap, disk |-> NullItem], 1,
                          <<TempUser(1), TempAssistant(1)>>).disk

\* The browser opens the chat page: init() has read the pending map and
\* awaits Auth.syncSession().  The login flag may be stored from an
\* earlier visit, the backend's session may have ended since.
AuthInit ==
    /\ skew = 0
    /\ clock = 3
    /\ server = [i \in {1} |-> <<SrvUser(1, skew), SrvAssistant(1, skew)>>]
    /\ storage \in {NullItem, LeftPending}
    /\ sessions = <<>>
    /\ currentSessionId = 0
    /\ isSending = FALSE
    /\ pendingMessages = loadPendingFromStorage(storage)
    /\ pendingPollTimer = 0
    /\ chatInputDisabled = FALSE
    /\ btnSendDisabled = FALSE
    /\ popupAlert = FALSE
    /\ activeTimers = {}
    /\ pcInit = "sync"
    /\ initReq = <<>>
    /\ sends = <<>>
    /\ gets = EmptyBag
    /\ reloads = 0
    /\ switches = 0
    /\ sessionAuthenticated = FALSE
    /\ local \in {NoLocal, LeftLocal}
    /\ loginPopup = FALSE
    /\ location = "chat"
    /\ isLoggedIn = FALSE
    /\ calls = {"session"}
    /\ gated = FALSE
    /\ pickerOpen = FALSE
    /\ serverSession \in BOOLEAN
    /\ NoAttachment
    /\ pageState = NoScript

AuthNext ==
    \/ \E loc \in {"chat", "mypage", "login"} : Visit(loc)
    \/ SyncConfirmed
    \/ SyncRejected
    \/ SyncFailed
    \/ InitSessionsLoaded
    \/ InitSessionsFailed
    \/ HandleSend
    \/ HandleSendNoSession
    \/ HandleSendDenied
    \/ \E i \in 1..Len(sends) : CreateSessionDone(i)
    \/ \E i \in 1..Len(sends) : CreateSessionFailed(i)
    \/ \E id \in 1..MaxSessions : SwitchSession(id)
    \/ \E g \in BagToSet(gets) : DetailOk(g)
    \/ \E g \in BagToSet(gets) : DetailFailed(g)
    \/ OpenImagePicker
    \/ OpenImagePickerDenied
    \/ NewChat
    \/ NewChatDenied
    \/ NewChatDone
    \/ NewChatFailed
    \/ LogoutClick
    \/ \E ok \in BOOLEAN : LogoutDone(ok)
    \/ DeleteAccountClick
    \/ DeleteAccountOk
    \/ DeleteAccountFailed
    \/ LoginSubmit
    \/ LoginOk
    \/ LoginFailed
    \/ SessionExpires

AuthSpec == AuthInit /\ [][AuthNext]_vars

\* ------------------------------------------------------ deleteSession
MaxClicks == 3      \* sidebar clicks where sessions are deleted

\* The request DELETE /api/chat/sessions/{id}/ among the calls in flight.
DeleteCall(id) == "DELETE " \o ToString(id)

\* confirmDeleteSession(): deleteSession(id) up to its fetch
\* (chat.js:595-601, 397-400).
DeleteSession(id) ==
    /\ location = "chat"
    /\ HasSession(sessions, id)
    /\ switches < MaxClicks
    /\ DeleteCall(id) \notin calls
    /\ calls' = calls \cup {DeleteCall(id)}
    /\ switches' = switches + 1
    /\ UNCHANGED <<sessions, currentSessionId, isSending, pendingMessages,
                   pendingPollTimer, chatInputDisabled, btnSendDisabled,
                   btnUploadImageDisabled,
                   popupAlert, storage, activeTimers, pcInit, initReq, sends,
                   gets, server, clock, skew, reloads, sessionAuthenticated,
                   local, loginPopup, location, isLoggedIn, gated, pickerOpen,
                   serverSession>>
    /\ UNCHANGED formVars

\* window.switchSession(id) once more, within the clicks of DeleteSpec
\* (chat.js:594).
SwitchSessionAgain(id) ==
    /\ HasSession(sessions, id)
    /\ MaxSwitches <= switches
    /\ switches < MaxClicks
    /\ CanFetch
    /\ gets' = gets (+) SetToBag({Fetch(id, "switch", 0)})
    /\ switches' = switches + 1
    /\ UNCHANGED <<sessions, currentSessionId, isSending, pendingMessages,
                   pendingPollTimer, chatInputDisabled, btnSendDisabled,
                   btnUploadImageDisabled,
                   popupAlert, storage, activeTimers, pcInit, initReq, sends,
                   server, clock, skew, reloads, authVars>>
    /\ UNCHANGED formVars

\* deleteSession(id) after its fetch succeeded, up to its
\* loadSessionDetail (chat.js:401-404).
deleteSession(page, id) ==
    LET Other(s) == s.id # id
    IN Only({IF p.cur = id
             THEN [q EXCEPT !.cur = IF Len(q.sessions) > 0
                                    THEN q.sessions[1].id ELSE 0]
             ELSE q
             : p \in {page},
               q \in {[page EXCEPT !.sessions = SelectSeq(@, Other)]}})

\* The backend deleted the session and the page learns of it
\* (chat.js:401-412).
DeleteOk(id) ==
    /\ DeleteCall(id) \in calls
    /\ id \in DOMAIN server
    /\ CanFetch
    /\ calls' = calls \ {DeleteCall(id)}
    /\ server' = [k \in DOMAIN server \ {id} |-> server[k]]
    /\ \E p \in {deleteSession(Page, id)} :
          /\ Commit(p)
          /\ gets' = IF currentSessionId = id /\ p.cur # 0
                     THEN gets (+) SetToBag({
                              [sid |-> p.cur, owner |-> "delete", inst |-> id,
                               msgs |-> IF p.cur \in DOMAIN server'
                                        THEN server'[p.cur] ELSE NotFound]})
                     ELSE gets
    /\ UNCHANGED <<pcInit, initReq, sends, clock, skew, reloads, switches,
                   sessionAuthenticated, local, loginPopup, location,
                   isLoggedIn, gated, pickerOpen, serverSession>>
    /\ UNCHANGED formVars

\* The deletion call failed: deleteSession alerts (chat.js:413-415).
DeleteFailed(id) ==
    /\ DeleteCall(id) \in calls
    /\ calls' = calls \ {DeleteCall(id)}
    /\ Commit(showAlert(Page))
    /\ UNCHANGED <<pcInit, initReq, sends, gets, server, clock, skew, reloads,
                   switches, sessionAuthenticated, local, loginPopup, location,
                   isLoggedIn, gated, pickerOpen, serverSession>>
    /\ UNCHANGED formVars

\* The chat page of a logged-in user has just loaded; the backend holds
\* MaxSessions sessions with one earlier exchange each.
DeleteInit ==
    /\ skew = 0
    /\ clock = 3
    /\ server = [i \in 1..MaxSessions |-> <<SrvUser(1, skew), SrvAssistant(1, skew)>>]
    /\ sessions = <<>>
    /\ currentSessionId = 0
    /\ isSending = FALSE
    /\ pendingMessages = loadPendingFromStorage(NullItem)
    /\ pendingPollTimer = 0
    /\ chatInputDisabled = FALSE
    /\ btnSendDisabled = FALSE
    /\ popupAlert = FALSE
    /\ storage = NullItem
    /\ activeTimers = {}
    /\ pcInit = "sessions"
    /\ initReq = [i \in 1..MaxSessions |-> [id |-> i, messages |-> server[i]]]
    /\ sends = <<>>
    /\ gets = EmptyBag
    /\ reloads = 0
    /\ switches = 0
    /\ sessionAuthenticated = TRUE
    /\ local = LeftLocal
    /\ loginPopup = FALSE
    /\ location = "chat"
    /\ isLoggedIn = TRUE
    /\ calls = {}
    /\ gated = FALSE
    /\ pickerOpen = FALSE
    /\ serverSession = TRUE
    /\ NoAttachment
    /\ pageState = NoScript

DeleteNext ==
    \/ InitSessionsLoaded
    \/ InitSessionsFailed
    \/ \E id \in 1..MaxSessions : SwitchSession(id)
    \/ \E id \in 1..MaxSessions : SwitchSessionAgain(id)
    \/ \E g \in BagToSet(gets) : DetailOk(g)
    \/ \E g \in BagToSet(gets) : DetailFailed(g)
    \/ \E id \in 1..MaxSessions : DeleteSession(id)
    \/ \E id \in 1..MaxSessions : DeleteOk(id)
    \/ \E id \in 1..MaxSessions : DeleteFailed(id)

DeleteSpec == DeleteInit /\ [][DeleteNext]_vars

\* ----------------------------------------------------------- attachment
\* The image of the composer of the chat page (chat.js:7-8, 46-66, 275-289,
\* 833-855).  ComposeSpec: a logged-in user on the chat page picks files,
\* removes the preview and sends; the ticks of the poll timer that fetch a
\* detail are followed in Spec.

MaxImageBytes == 10485760   \* 10 * 1024 * 1024 (chat.js:840)
MaxTextLength == 200        \* text.length > 200 (chat.js:709)

\* The files the user may choose in the picker, by their number: a JPEG of
\* exactly the largest size, a GIF, and a PNG one byte too large.
Files ==
    <<[type |-> "image/jpeg", size |-> MaxImageBytes],
      [type |-> "image/gif",  size |-> 1],
      [type |-> "image/png",  size |-> MaxImageBytes + 1]>>

\* file.type.match(/^image\/(jpeg|png)$/)
IsJpegOrPng(file) == file.type \in {"image/jpeg", "image/png"}

\* updateAttachmentLock(): the input and the upload button are disabled
\* exactly while a send is under way (chat.js:55-66).
updateAttachmentLock(p) == [p EXCEPT !.chat = p.sending, !.upload = p.sending]

\* handleImageUpload keeps the file (chat.js:835-844).
AcceptsFile(file) == IsJpegOrPng(file) /\ file.size <= MaxImageBytes

\* The change event of the file input: the user chose file f in the picker
\* (chat.js:281, 833-855).
HandleImageUpload(f) ==
    /\ location = "chat"
    /\ pickerOpen
    /\ pickerOpen' = FALSE
    /\ IF AcceptsFile(Files[f])
       THEN /\ uploadedFile' = f
            /\ reader' = reader \cup {f}
            /\ Commit(updateAttachmentLock(Page))
       ELSE /\ Commit(showAlert(Page))
            /\ UNCHANGED <<uploadedFile, reader>>
    /\ UNCHANGED <<pcInit, initReq, sends, gets, server, clock, skew, reloads,
                   switches, sessionAuthenticated, local, loginPopup, location,
                   isLoggedIn, calls, gated, serverSession, uploadedImage,
                   pageState>>

\* reader.onload: the data URL of file f is there and the preview is shown
\* (chat.js:846-851).
ReaderLoaded(f) ==
    /\ location = "chat"
    /\ f \in reader
    /\ reader' = reader \ {f}
    /\ uploadedImage' = f
    /\ btnUploadImageDisabled' = FALSE
    /\ UNCHANGED <<sessions, currentSessionId, isSending, pendingMessages,
                   pendingPollTimer, chatInputDisabled, btnSendDisabled,
                   popupAlert, storage, activeTimers, pcInit, initReq, sends,
                   gets, server, clock, skew, reloads, switches, authVars,
                   uploadedFile, pageState>>

\* The click on btn-remove-image of the preview (chat.js:282-289).
RemoveImage ==
    /\ location = "chat"
    /\ uploadedImage # 0
    /\ uploadedImage' = 0
    /\ uploadedFile' = 0
    /\ Commit(updateAttachmentLock([Page EXCEPT !.upload = FALSE, !.chat = FALSE]))
    /\ UNCHANGED <<pcInit, initReq, sends, gets, server, clock, skew, reloads,
                   switches, authVars, reader, pageState>>

\* The lengths of the text in the chat input the user may send.
TextLengths == {0, 1, MaxTextLength, MaxTextLength + 1}

\* handleSend goes on past its two checks of the input (chat.js:703-714).
PassesChecks(length) ==
    /\ ~(length = 0 /\ uploadedImage = 0)
    /\ ~(length > MaxTextLength)

\* handleSend of an input that fails a check: it locks, alerts if the text
\* is too long, unlocks and returns (chat.js:696-714).
HandleSendRejected(length) ==
    /\ CanInvokeSend
    /\ requireLogin(AuthState).ok
    /\ ~isSending
    /\ ~PassesChecks(length)
    /\ LET p1 == toggleInputDisabled([Page EXCEPT !.sending = TRUE], TRUE)
           p2 == IF length = 0 /\ uploadedImage = 0 THEN p1 ELSE showAlert(p1)
       IN Commit(toggleInputDisabled([p2 EXCEPT !.sending = FALSE], FALSE))
    /\ UNCHANGED <<pcInit, initReq, sends, gets, server, clock, skew, reloads,
                   switches, authVars, formVars>>

\* The chat page of a logged-in user who has opened session 1, which holds
\* one earlier exchange: the state Spec reaches by InitSessionsLoaded,
\* SwitchSession(1) and DetailOk.
ComposeInit ==
    /\ skew = 0
    /\ clock = 3
    /\ server = [i \in {1} |-> <<SrvUser(1, skew), SrvAssistant(1, skew)>>]
    /\ sessions = <<normalizeSession(1, server[1])>>
    /\ currentSessionId = 1
    /\ isSending = FALSE
    /\ pendingMessages = loadPendingFromStorage(NullItem)
    /\ pendingPollTimer = 0
    /\ chatInputDisabled = FALSE
    /\ btnSendDisabled = FALSE
    /\ popupAlert = FALSE
    /\ storage = NullItem
    /\ activeTimers = {}
    /\ pcInit = "done"
    /\ initReq = [i \in {1} |-> [id |-> 1, messages |-> server[1]]]
    /\ sends = <<>>
    /\ gets = EmptyBag
    /\ reloads = 0
    /\ switches = MaxSwitches
    /\ sessionAuthenticated = TRUE
    /\ local = login([sa |-> FALSE, ls |-> NoLocal, popup |-> FALSE, calls |-> {}]).ls
    /\ loginPopup = FALSE
    /\ location = "chat"
    /\ isLoggedIn = TRUE
    /\ calls = {}
    /\ gated = FALSE
    /\ pickerOpen = FALSE
    /\ serverSession = TRUE
    /\ NoAttachment
    /\ pageState = NoScript

\* handleSend of a text of the given length, with an active session.
HandleSendOf(length) ==
    \/ PassesChecks(length) /\ HandleSend
    \/ HandleSendRejected(length)

ComposeNext ==
    \/ \E length \in TextLengths : HandleSendOf(length)
    \/ \E i \in 1..Len(sends) : ServerStoreUser(i)
    \/ \E i \in 1..Len(sends) : ServerStoreAssistant(i)
    \/ \E i \in 1..Len(sends) : PostOk(i)
    \/ \E i \in 1..Len(sends) : PostFail(i)
    \/ \E t \in activeTimers : PollStop(t)
    \/ \E g \in BagToSet(gets) : DetailOk(g)
    \/ \E g \in BagToSet(gets) : DetailFailed(g)
    \/ OpenImagePicker
    \/ \E f \in 1..Len(Files) : HandleImageUpload(f)
    \/ \E f \in 1..Len(Files) : ReaderLoaded(f)
    \/ RemoveImage

ComposeSpec == ComposeInit /\ [][ComposeNext]_vars

\* ------------------------------------------------------------- passwords
\* A text of a form field is the sequence of its characters.
LowerCase == <<"a", "b", "c", "d", "e", "f", "g", "h", "i", "j", "k", "l", "m",
               "n", "o", "p", "q", "r", "s", "t", "u", "v", "w", "x", "y", "z">>

UpperCase == <<"A", "B", "C", "D", "E", "F", "G", "H", "I", "J", "K", "L", "M",
               "N", "O", "P", "Q", "R", "S", "T", "U", "V", "W", "X", "Y", "Z">>

Digits == <<"0", "1", "2", "3", "4", "5", "6", "7", "8", "9">>

IsLetter(c) == c \in Range(LowerCase) \cup Range(UpperCase)     \* [a-zA-Z]

IsDigit(c) == c \in Range(Digits)                               \* [0-9] and \d

IsSpecial(c) == c \in {"!", "?", "~", "@", "#", "$", "%", "&", "^"}

\* c.toLowerCase()
toLowerCase(c) ==
    IF c \in Range(UpperCase)
    THEN LowerCase[CHOOSE i \in 1..Len(UpperCase) : UpperCase[i] = c]
    ELSE c

\* The string of a sequence of characters.
RECURSIVE Join(_)
Join(text) == IF text = <<>> THEN "" ELSE Head(text) \o Join(Tail(text))

\* regex.test(text) of an alternation of the words.
ContainsOneOf(text, words) ==
    \E i \in 1..Len(text), n \in 3..4 :
        /\ i + n - 1 <= Len(text)
        /\ Join(SubSeq(text, i, i + n - 1)) \in words

\* /(c)\1{2,}/.test(text) for the characters c of a class.
RepeatsThrice(text, class) ==
    \E i \in 1..(Len(text) - 2) :
        /\ text[i] \in class
        /\ text[i + 1] = text[i]
        /\ text[i + 2] = text[i]

DigitRuns == {"012", "123", "234", "345", "456", "567", "678", "789",
              "987", "876", "765", "654", "543", "432", "321", "210"}

LetterRuns == {"abc", "bcd", "cde", "def", "efg", "fgh", "ghi", "hij", "ijk",
               "jkl", "klm", "lmn", "mno", "nop", "opq", "pqr", "qrs", "rst",
               "stu", "tuv", "uvw", "vwx", "wxy", "xyz", "qwer", "asdf", "zxcv"}

\* The messages validatePassword returns, by what they are about.
LengthMessage == "length 6 to 16"
TypesMessage == "two kinds of letter, digit, special"
NumberMessage == "no run or repeat of digits"
LetterMessage == "no run or repeat of letters"

MinPassword == 6    \* pwd.length < 6   (part_000:304)
MaxPassword == 16   \* pwd.length > 16  (part_000:304)

\* validatePassword(pwd) (part_000:303-318, the same in
\* password_change.js:52-67 and password_reset.js).
validatePassword(pwd) ==
    LET classes == {k \in {"letter", "digit", "special"} :
                      \E i \in 1..Len(pwd) :
                         CASE k = "letter" -> IsLetter(pwd[i])
                           [] k = "digit"  -> IsDigit(pwd[i])
                           [] OTHER        -> IsSpecial(pwd[i])}
        lowered == [i \in 1..Len(pwd) |-> toLowerCase(pwd[i])]
    IN IF Len(pwd) < MinPassword \/ Len(pwd) > MaxPassword THEN LengthMessage
       ELSE IF Cardinality(classes) < 2 THEN TypesMessage
       ELSE IF RepeatsThrice(pwd, Range(Digits)) THEN NumberMessage
       ELSE IF ContainsOneOf(pwd, DigitRuns) THEN NumberMessage
       ELSE IF RepeatsThrice(pwd, Range(LowerCase) \cup Range(UpperCase)) THEN LetterMessage
       ELSE IF ContainsOneOf(lowered, LetterRuns) THEN LetterMessage
       ELSE ""

\* ------------------------------------------------------- password change
\* The password-change page (password_change.js).  pageState holds the
\* values of its three fields, the text of #error-text ("" while the error
\* is hidden) and whether #popup-success is shown.  PasswordSpec: a
\* logged-in user has filled the fields and submits.

\* The characters the candidates are made of: letters, digits, a special
\* character and one that is of no class.
BodyAlphabet == {"a", "b", "c", "A", "1", "2", "3", "!", "*"}

MaxBody == 3        \* characters of a candidate that vary

\* The ends of the candidates: they bring the length to 5, 6, 16 and 17.
Fillers ==
    {<<"x", "7">>,
     <<"x", "7", "y">>,
     <<"x", "z", "x">>,
     <<"x", "7", "y", "x", "7", "y", "x", "7", "y", "x", "7", "y", "x">>,
     <<"x", "7", "y", "x", "7", "y", "x", "7", "y", "x", "7", "y", "x", "7">>}

Bodies ==
    [1..MaxBody -> BodyAlphabet]
        \cup {<<"q", "w", "e", "r">>, <<"a", "s", "d", "f">>,
              <<"z", "x", "c", "v">>, <<"Q", "w", "E", "r">>}

\* The passwords a user types.
Candidates ==
    {b \o f : b \in Bodies, f \in Fillers}
        \cup {<<"a", "a", "a", "a", "a", "a", "1">>}

OldPassword == <<"o", "l", "d", "9", "p", "w">>

NoError == ""

PasswordChangeScript(current, new, confirm) ==
    [page |-> "password-change", currentPassword |-> current,
     newPassword |-> new, confirmPassword |-> confirm, error |-> NoError,
     popupSuccess |-> FALSE]

ChangeCall == "POST /api/accounts/password/change/"

\* What the click handler of btn-submit shows for the fields, NoError if it
\* goes on to its request (password_change.js:75-109).
SubmitError(p) ==
    IF p.currentPassword = <<>> THEN "current password missing"
    ELSE IF p.newPassword = <<>> THEN "new password missing"
    ELSE IF validatePassword(p.newPassword) # "" THEN validatePassword(p.newPassword)
    ELSE IF p.confirmPassword = <<>> THEN "confirmation missing"
    ELSE IF p.newPassword # p.confirmPassword THEN "confirmation differs"
    ELSE IF p.currentPassword = p.newPassword THEN "same as current password"
    ELSE NoError

\* The click on btn-submit, up to its fetch (password_change.js:75-119).
PasswordSubmit ==
    /\ location = "password-change"
    /\ ChangeCall \notin calls
    /\ pageState' = [pageState EXCEPT !.error = SubmitError(pageState)]
    /\ calls' = IF SubmitError(pageState) = NoError
                THEN calls \cup {ChangeCall} ELSE calls
    /\ UNCHANGED <<chatVars, sessionAuthenticated, local, loginPopup, location,
                   isLoggedIn, gated, pickerOpen, serverSession, uploadedImage,
                   uploadedFile, reader>>

\* The backend changed the password (password_change.js:121).
PasswordChangeOk ==
    /\ location = "password-change"
    /\ ChangeCall \in calls
    /\ calls' = calls \ {ChangeCall}
    /\ pageState' = [pageState EXCEPT !.popupSuccess = TRUE]
    /\ UNCHANGED <<chatVars, sessionAuthenticated, local, loginPopup, location,
                   isLoggedIn, gated, pickerOpen, serverSession, uploadedImage,
                   uploadedFile, reader>>

\* The call failed (password_change.js:122-124).
PasswordChangeFailed ==
    /\ location = "password-change"
    /\ ChangeCall \in calls
    /\ calls' = calls \ {ChangeCall}
    /\ pageState' = [pageState EXCEPT !.error = "change failed"]
    /\ UNCHANGED <<chatVars, sessionAuthenticated, local, loginPopup, location,
                   isLoggedIn, gated, pickerOpen, serverSession, uploadedImage,
                   uploadedFile, reader>>

\* The chat variables of a page that is not the chat page.
NoChat ==
    /\ skew = 0
    /\ clock = 3
    /\ server = [i \in {1} |-> <<SrvUser(1, skew), SrvAssistant(1, skew)>>]
    /\ sessions = <<>>
    /\ currentSessionId = 0
    /\ isSending = FALSE
    /\ pendingMessages = EmptyMap
    /\ pendingPollTimer = 0
    /\ chatInputDisabled = FALSE
    /\ btnSendDisabled = FALSE
    /\ popupAlert = FALSE
    /\ storage = NullItem
    /\ activeTimers = {}
    /\ pcInit = "off"
    /\ initReq = <<>>
    /\ sends = <<>>
    /\ gets = EmptyBag
    /\ reloads = 0
    /\ switches = 0
    /\ NoAttachment

\* The password-change page of a logged-in user, its fields filled.
PasswordInit ==
    /\ NoChat
    /\ sessionAuthenticated = FALSE
    /\ local = LeftLocal
    /\ loginPopup = FALSE
    /\ location = "password-change"
    /\ isLoggedIn = FALSE
    /\ calls = {}
    /\ gated = FALSE
    /\ pickerOpen = FALSE
    /\ serverSession = TRUE
    /\ \E new \in Candidates :
         \E current \in {<<>>, OldPassword, new} :
           \E confirm \in {<<>>, OldPassword, new} :
              pageState = PasswordChangeScript(current, new, confirm)

PasswordNext ==
    \/ PasswordSubmit
    \/ PasswordChangeOk
    \/ PasswordChangeFailed

PasswordSpec == PasswordInit /\ [][PasswordNext]_vars

\* --------------------------------------------------------------- styles
\* selectedStyles.filter(s => s !== id)
WithoutStyle(selectedStyles, id) == SelectSeq(selectedStyles, LAMBDA s : s # id)

\* toggleStyle of the wizard as it would be without its cap.
toggleStyleUncapped(selectedStyles, id) ==
    IF id \in Range(selectedStyles) THEN WithoutStyle(selectedStyles, id)
    ELSE Append(selectedStyles, id)

\* window.toggleStyle(id) of the preference wizard: the list it leaves.
toggleStyle(selectedStyles, id) ==
    IF id \in Range(selectedStyles) THEN WithoutStyle(selectedStyles, id)
    ELSE IF Len(selectedStyles) < MaxSelected THEN Append(selectedStyles, id)
    ELSE selectedStyles

\* window.toggleStyle(style) of the reference board: the list it leaves;
\* at the cap it alerts and returns.
boardToggleStyle(selectedStyles, style) ==
    IF style \in Range(selectedStyles) THEN WithoutStyle(selectedStyles, style)
    ELSE IF Len(selectedStyles) >= MaxSelected THEN selectedStyles
    ELSE Append(selectedStyles, style)

LastStep == 4       \* the wizard's step with the style grid

unchangedByScript ==
    UNCHANGED <<chatVars, sessionAuthenticated, local, loginPopup, location,
                isLoggedIn, calls, gated, pickerOpen, serverSession,
                uploadedImage, uploadedFile, reader>>

\* The user has filled the step's field and clicks its next button.
StepNext ==
    /\ pageState.page = "preference"
    /\ pageState.step < LastStep
    /\ pageState' = [pageState EXCEPT !.step = @ + 1]
    /\ unchangedByScript

\* The user clicks a style of the wizard's grid.
ToggleStyle(id) ==
    /\ pageState.page = "preference"
    /\ pageState.step = LastStep
    /\ pageState' = [pageState EXCEPT !.selectedStyles = toggleStyle(@, id)]
    /\ unchangedByScript

\* The user clicks the wizard's complete button: with a style selected the
\* preferences are stored and the browser goes to the reference board.
CompleteClick ==
    /\ pageState.page = "preference"
    /\ pageState.step = LastStep
    /\ IF Len(pageState.selectedStyles) > 0
       THEN /\ LoadPage("board",
                    [AuthState EXCEPT !.ls =
                        StateSet(@, "userPreferences",
                                 PreferencesText(pageState.selectedStyles))])
            /\ UNCHANGED <<reloads, serverSession>>
       ELSE UNCHANGED vars

\* The user clicks a style tag of the reference board.
BoardToggleStyle(style) ==
    /\ pageState.page = "board"
    /\ pageState' = [pageState EXCEPT
                        !.selectedStyles = boardToggleStyle(@, style)]
    /\ unchangedByScript

\* The preference wizard of a logged-in user, just loaded.
StyleInit ==
    /\ NoChat
    /\ sessionAuthenticated = FALSE
    /\ local = LeftLocal
    /\ loginPopup = FALSE
    /\ location = "preference"
    /\ isLoggedIn = FALSE
    /\ calls = {}
    /\ gated = FALSE
    /\ pickerOpen = FALSE
    /\ serverSession = TRUE
    /\ pageState = Script("preference", TRUE, local)

StyleNext ==
    \/ StepNext
    \/ \E id \in Styles : ToggleStyle(id)
    \/ CompleteClick
    \/ \E style \in Styles : BoardToggleStyle(style)
    \/ \E loc \in {"preference", "board"} : Visit(loc)

StyleSpec == StyleInit /\ [][StyleNext]_vars

\* -------------------------------------------------------------- storage
\* A stored text that is not JSON: the beginning of an object.
CorruptText == "{styles:["

\* The texts JSON.parse accepts.
JSONTexts == {"true", "false"} \cup ArrayTexts \cup ObjectTexts

Unparseable(text) == text # Absent /\ text \notin JSONTexts

\* What earlier visits, or anything else that writes the browser's
\* localStorage, can have left under the keys the pages read.
StoredTexts(key) ==
    CASE key = "isLoggedIn"       -> {"true", CorruptText}
      [] key = "userEmail"        -> {UserEmail}
      [] key = "userPreferences"  -> {Absent, PreferencesText(<<"vintage">>),
                                      CorruptText}
      [] key = "favoriteProducts" -> {"[]", FavoritesText, CorruptText}
      [] OTHER                    -> {Absent}

StorageInit ==
    /\ skew = 0
    /\ clock = 3
    /\ server = [i \in {1} |-> <<SrvUser(1, skew), SrvAssistant(1, skew)>>]
    /\ sessions = <<>>
    /\ currentSessionId = 0
    /\ isSending = FALSE
    /\ pendingMessages = EmptyMap
    /\ pendingPollTimer = 0
    /\ chatInputDisabled = FALSE
    /\ btnSendDisabled = FALSE
    /\ popupAlert = FALSE
    /\ storage \in {NullItem, LeftPending, CorruptItem}
    /\ activeTimers = {}
    /\ pcInit = "off"
    /\ initReq = <<>>
    /\ sends = <<>>
    /\ gets = EmptyBag
    /\ reloads = 0
    /\ switches = 0
    /\ NoAttachment
    /\ sessionAuthenticated = FALSE
    /\ local \in {ls \in [LocalKeys -> UNION {StoredTexts(k) : k \in LocalKeys}] :
                    \A k \in LocalKeys : ls[k] \in StoredTexts(k)}
    /\ loginPopup = FALSE
    /\ location = "login"
    /\ isLoggedIn = FALSE
    /\ calls = {}
    /\ gated = FALSE
    /\ pickerOpen = FALSE
    /\ serverSession = TRUE
    /\ pageState = NoScript

StorageNext == \E loc \in {"chat", "mypage", "board"} : Visit(loc)

StorageSpec == StorageInit /\ [][StorageNext]_vars

\* --------------------------------------------------------------- signup
\* validateEmail(email): /^[^\s@]+@[^\s@]+\.[^\s@]+$/ on the characters of
\* the text: one "@", no white space, something before the "@", and after
\* it a dot with something on both sides.
validateEmail(email) ==
    /\ \A i \in 1..Len(email) : email[i] # " "
    /\ \E at \in 2..Len(email) :
         /\ email[at] = "@"
         /\ \A i \in 1..Len(email) : email[i] = "@" => i = at
         /\ \E dot \in (at + 2)..(Len(email) - 1) : email[dot] = "."

\* What the user has in the e-mail field at a click.
EmailTexts ==
    {<<"a", "@", "x", ".", "y">>, <<"b", "@", "x", ".", "y">>,
     <<>>, <<"a", "@", "x">>, <<"a", "@", ".", "y">>,
     <<"a", " ", "@", "x", ".", "y">>}

MaxSendCount == 5       \* successful sends before the lockout
BlockSeconds == 600     \* the lockout
ResendSeconds == 10     \* the resend cooldown
CodeSeconds == 180      \* the validity of a code

SendCall(email) == "POST /api/accounts/register/email/ " \o Join(email)

VerifyCall(email, code) ==
    "POST /api/accounts/register/verify/ " \o Join(email) \o " " \o code

CompleteCall(email, password, password2) ==
    "POST /api/accounts/register/complete/ " \o Join(email) \o " "
        \o Join(password) \o " " \o Join(password2)

\* The wizard's state when the page has loaded.  The markup is not part of
\* the sources: the buttons start enabled.  sinceSend, blockedFor, sentTo and
\* verified are not variables of the script: the seconds since the last
\* successful send (up to the cooldown) and since the lockout began, the
\* e-mails the backend has sent a code to, and the e-mail of the verify
\* request whose success showed step 3.
SignupScript ==
    [page |-> "signup", step |-> 1, email |-> <<>>, verificationCode |-> "",
     hasSentCode |-> FALSE, password |-> <<>>, confirmPassword |-> <<>>,
     timeLeft |-> 0, sendCount |-> 0, isBlocked |-> FALSE, blockTimeLeft |-> 0,
     resendCooldown |-> 0, timerInterval |-> FALSE,
     blockTimerInterval |-> FALSE, resendTimerInterval |-> FALSE,
     btnSendCodeDisabled |-> FALSE, btnStep2NextDisabled |-> FALSE,
     btnCompleteSignUpDisabled |-> FALSE, error |-> NoError,
     popupResendError |-> FALSE,
     sinceSend |-> ResendSeconds, blockedFor |-> 0, sentTo |-> {},
     verified |-> <<>>]

\* The checks of the send-code handler as they would be without the cooldown.
SendCodeVerdictNoCooldown(p, value) ==
    IF p.isBlocked THEN "blocked"
    ELSE IF ~validateEmail(value) THEN "format"
    ELSE IF p.sendCount >= MaxSendCount THEN "lockout"
    ELSE "send"

\* The checks of the send-code handler, in their order (part_000:378-412).
SendCodeVerdict(p, value) ==
    IF p.isBlocked THEN "blocked"
    ELSE IF ~validateEmail(value) THEN "format"
    ELSE IF p.sendCount > 0 /\ p.resendCooldown > 0 THEN "cooldown"
    ELSE IF p.sendCount >= MaxSendCount THEN "lockout"
    ELSE "send"

\* The click handler of btn-send-code up to its await: the e-mail is read
\* from the field before any check.
clickSendCode(p, value) ==
    \* hideError, email = emailInput.value
    LET q == [p EXCEPT !.error = NoError, !.email = value]
        v == SendCodeVerdict(p, value)
    IN CASE v = "blocked"  -> [q EXCEPT !.error = "blocked"]
         [] v = "format"   -> [q EXCEPT !.error = "email format"]
         [] v = "cooldown" -> [q EXCEPT !.popupResendError = TRUE]
         [] v = "lockout"  -> [q EXCEPT !.isBlocked = TRUE,
                                        !.blockTimeLeft = BlockSeconds,
                                        !.error = "send count exceeded",
                                        !.blockTimerInterval = TRUE,
                                        !.blockedFor = 0]
         [] OTHER          -> [q EXCEPT !.btnSendCodeDisabled = TRUE]

unchangedBySignup ==
    UNCHANGED <<chatVars, sessionAuthenticated, local, loginPopup, location,
                isLoggedIn, gated, pickerOpen, serverSession,
                uploadedImage, uploadedFile, reader>>

\* The user has accepted the terms and clicks next (part_000:345).
Step1Next ==
    /\ pageState.page = "signup"
    /\ pageState.step = 1
    /\ pageState' = [pageState EXCEPT !.step = 2]
    /\ UNCHANGED calls
    /\ unchangedBySignup

\* The user clicks the send-code button with value in the e-mail field.
SendCodeClick(value) ==
    /\ pageState.page = "signup"
    /\ pageState.step = 2
    /\ ~pageState.btnSendCodeDisabled
    /\ pageState' = clickSendCode(pageState, value)
    /\ calls' = IF SendCodeVerdict(pageState, value) = "send"
                THEN calls \cup {SendCall(value)} ELSE calls
    /\ unchangedBySignup

\* The backend has sent the code: startTimer(), startResendCooldown().
SendCodeOk(email) ==
    /\ pageState.page = "signup"
    /\ SendCall(email) \in calls
    /\ calls' = calls \ {SendCall(email)}
    /\ pageState' = [pageState EXCEPT
                        !.hasSentCode = TRUE,
                        !.sendCount = @ + 1,
                        !.timeLeft = CodeSeconds,
                        !.timerInterval = TRUE,
                        !.resendCooldown = ResendSeconds,
                        !.resendTimerInterval = TRUE,
                        !.btnSendCodeDisabled = FALSE,
                        !.sinceSend = 0,
                        !.sentTo = @ \cup {email}]
    /\ unchangedBySignup

\* The send-code request failed.
SendCodeFailed(email) ==
    /\ pageState.page = "signup"
    /\ SendCall(email) \in calls
    /\ calls' = calls \ {SendCall(email)}
    /\ pageState' = [pageState EXCEPT !.error = "send failed",
                                      !.btnSendCodeDisabled = FALSE]
    /\ unchangedBySignup

\* A second passes: every running interval fires once.
tick(p) ==
    LET time == IF p.timerInterval THEN p.timeLeft - 1 ELSE p.timeLeft
        cool == IF p.resendTimerInterval THEN p.resendCooldown - 1
                ELSE p.resendCooldown
        block == IF p.blockTimerInterval THEN p.blockTimeLeft - 1
                 ELSE p.blockTimeLeft
        lifted == p.blockTimerInterval /\ block <= 0
    IN [p EXCEPT
          !.timeLeft = time,
          !.timerInterval = @ /\ ~(time <= 0),
          !.resendCooldown = cool,
          !.resendTimerInterval = @ /\ ~(cool <= 0),
          !.blockTimeLeft = block,
          !.blockTimerInterval = @ /\ ~(block <= 0),
          !.isBlocked = IF lifted THEN FALSE ELSE @,
          !.sendCount = IF lifted THEN 0 ELSE @,
          !.sinceSend = IF @ < ResendSeconds THEN @ + 1 ELSE @,
          !.blockedFor = IF p.isBlocked THEN @ + 1 ELSE @]

Tick ==
    /\ pageState.page = "signup"
    /\ \/ pageState.timerInterval
       \/ pageState.resendTimerInterval
       \/ pageState.blockTimerInterval
    /\ pageState' = tick(pageState)
    /\ UNCHANGED calls
    /\ unchangedBySignup

\* The e-mail field of the rate-limit runs: a well-formed and a malformed one.
RateEmails == {<<"a", "@", "x", ".", "y">>, <<"a", "@", "x">>}

\* Step 2 of the signup wizard, followed through the lockout.
RateInit ==
    /\ NoChat
    /\ sessionAuthenticated = FALSE
    /\ local = NoLocal
    /\ loginPopup = FALSE
    /\ location = "signup"
    /\ isLoggedIn = FALSE
    /\ calls = {}
    /\ gated = FALSE
    /\ pickerOpen = FALSE
    /\ serverSession = FALSE
    /\ pageState = [SignupScript EXCEPT !.step = 2]

RateNext ==
    \/ \E value \in RateEmails : SendCodeClick(value)
    \/ \E email \in RateEmails : SendCodeOk(email)
    \/ \E email \in RateEmails : SendCodeFailed(email)
    \/ Tick

RateSpec == RateInit /\ [][RateNext]_vars

MaxCalls == 2       \* the verify and complete requests in flight together

\* What the user types in the code field, and in the password fields.
Codes == {"", "123456"}

SignupPasswords ==
    {<<>>, <<"a", "b", "1", "2", "!", "x">>, <<"a", "b", "c", "1", "2", "!">>}

\* The user types in the code field.
CodeInput(code) ==
    /\ pageState.page = "signup"
    /\ pageState.step = 2
    /\ pageState' = [pageState EXCEPT
                        !.verificationCode = code,
                        !.btnStep2NextDisabled =
                            (code = "" \/ ~pageState.hasSentCode)]
    /\ UNCHANGED calls
    /\ unchangedBySignup

\* The click handler of btn-step-2-next up to its await.
VerifyClick ==
    /\ pageState.page = "signup"
    /\ pageState.step = 2
    /\ ~pageState.btnStep2NextDisabled
    /\ Cardinality(calls) < MaxCalls
    /\ IF pageState.timeLeft <= 0
       THEN /\ pageState' = [pageState EXCEPT !.error = "code expired"]
            /\ UNCHANGED calls
       ELSE /\ pageState' = [pageState EXCEPT !.error = NoError,
                                              !.btnStep2NextDisabled = TRUE]
            /\ calls' = calls \cup {VerifyCall(pageState.email,
                                               pageState.verificationCode)}
    /\ unchangedBySignup

\* The backend accepts the code, which it does only for an e-mail it has
\* sent one to: showStep(3).
VerifyOk(email, code) ==
    /\ pageState.page = "signup"
    /\ VerifyCall(email, code) \in calls
    /\ email \in pageState.sentTo
    /\ calls' = calls \ {VerifyCall(email, code)}
    /\ pageState' = [pageState EXCEPT !.step = 3,
                                      !.btnStep2NextDisabled = FALSE,
                                      !.verified = email]
    /\ unchangedBySignup

VerifyFailed(email, code) ==
    /\ pageState.page = "signup"
    /\ VerifyCall(email, code) \in calls
    /\ calls' = calls \ {VerifyCall(email, code)}
    /\ pageState' = [pageState EXCEPT !.error = "verify failed",
                                      !.btnStep2NextDisabled = FALSE]
    /\ unchangedBySignup

Step2Prev ==
    /\ pageState.page = "signup"
    /\ pageState.step = 2
    /\ pageState' = [pageState EXCEPT !.step = 1]
    /\ UNCHANGED calls
    /\ unchangedBySignup

\* checkStep3Validity(): the user types in a password field.
PasswordInput(pwd, confirm) ==
    /\ pageState.page = "signup"
    /\ pageState.step = 3
    /\ pageState' = [pageState EXCEPT
                        !.password = pwd,
                        !.confirmPassword = confirm,
                        !.btnCompleteSignUpDisabled =
                            (pwd = <<>> \/ confirm = <<>>)]
    /\ UNCHANGED calls
    /\ unchangedBySignup

\* What the click handler of btn-complete-signup shows, NoError if it goes
\* on to its request.
CompleteError(p) ==
    IF validatePassword(p.password) # "" THEN validatePassword(p.password)
    ELSE IF p.password # p.confirmPassword THEN "confirmation differs"
    ELSE NoError

\* The click handler of btn-complete-signup up to its await.
CompleteSignUpClick ==
    /\ pageState.page = "signup"
    /\ pageState.step = 3
    /\ ~pageState.btnCompleteSignUpDisabled
    /\ Cardinality(calls) < MaxCalls
    /\ pageState' = [pageState EXCEPT
                        !.error = CompleteError(pageState),
                        !.btnCompleteSignUpDisabled =
                            (CompleteError(pageState) = NoError)]
    /\ calls' = IF CompleteError(pageState) = NoError
                THEN calls \cup {CompleteCall(pageState.email,
                                              pageState.password,
                                              pageState.confirmPassword)}
                ELSE calls
    /\ unchangedBySignup

CompleteOk(email, pwd) ==
    /\ pageState.page = "signup"
    /\ CompleteCall(email, pwd, pwd) \in calls
    /\ calls' = calls \ {CompleteCall(email, pwd, pwd)}
    /\ pageState' = [pageState EXCEPT !.step = 4,
                                      !.btnCompleteSignUpDisabled = FALSE]
    /\ unchangedBySignup

CompleteFailed(email, pwd) ==
    /\ pageState.page = "signup"
    /\ CompleteCall(email, pwd, pwd) \in calls
    /\ calls' = calls \ {CompleteCall(email, pwd, pwd)}
    /\ pageState' = [pageState EXCEPT !.error = "signup failed",
                                      !.btnCompleteSignUpDisabled = FALSE]
    /\ unchangedBySignup

Step3Prev ==
    /\ pageState.page = "signup"
    /\ pageState.step = 3
    /\ pageState' = [pageState EXCEPT !.step = 2]
    /\ UNCHANGED calls
    /\ unchangedBySignup

\* The e-mail field of the wizard runs.
SignupEmails ==
    {<<"a", "@", "x", ".", "y">>, <<"b", "@", "x", ".", "y">>,
     <<"a", "@", "x">>}

\* The signup wizard, just loaded.
SignupInit ==
    /\ NoChat
    /\ sessionAuthenticated = FALSE
    /\ local = NoLocal
    /\ loginPopup = FALSE
    /\ location = "signup"
    /\ isLoggedIn = FALSE
    /\ calls = {}
    /\ gated = FALSE
    /\ pickerOpen = FALSE
    /\ serverSession = FALSE
    /\ pageState = SignupScript

\* The wizard within the second after a code was sent: the countdowns are
\* followed in RateSpec.
SignupNext ==
    \/ Step1Next
    \/ \E value \in SignupEmails : SendCodeClick(value)
    \/ \E email \in SignupEmails : SendCodeOk(email)
    \/ \E email \in SignupEmails : SendCodeFailed(email)
    \/ \E code \in Codes : CodeInput(code)
    \/ VerifyClick
    \/ \E email \in SignupEmails, code \in Codes : VerifyOk(email, code)
    \/ \E email \in SignupEmails, code \in Codes : VerifyFailed(email, code)
    \/ Step2Prev
    \/ \E pwd, confirm \in SignupPasswords : PasswordInput(pwd, confirm)
    \/ CompleteSignUpClick
    \/ \E email \in SignupEmails, pwd \in SignupPasswords : CompleteOk(email, pwd)
    \/ \E email \in SignupEmails, pwd \in SignupPasswords :
          CompleteFailed(email, pwd)
    \/ Step3Prev

SignupSpec == SignupInit /\ [][SignupNext]_vars

\* ---------------------------------------------------------------- forms
\* The three forms that validate their input, each on its loaded page.
FormInit == ComposeInit \/ SignupInit \/ PasswordInit

FormNext == ComposeNext \/ SignupNext \/ PasswordNext

FormSpec == FormInit /\ [][FormNext]_vars

\* ---------------------------------------------------------------- views
\* The messages the page displays for a session ([] if it has no entry).
Displayed(list, id) == IF HasSession(list, id) THEN getSession(list, id).messages ELSE <<>>

Buffer(mem, id) == IF KeyOf(id) \in DOMAIN mem THEN mem[KeyOf(id)] ELSE <<>>

TimerStopped == pendingPollTimer = 0 /\ activeTimers = {}
TimerRunning == pendingPollTimer # 0 /\ pendingPollTimer \in activeTimers

\* The handleSend invocations whose POST /api/chat/messages/ is outstanding.
PostsOutstanding == {i \in 1..Len(sends) : sends[i].pc = "post"}

\* ------------------------------------------------------------------- C1
\* C1: message sends are single-flight: at most one POST /api/chat/messages/
\* of the page is outstanding at any time.
C1_SingleFlight == Cardinality(PostsOutstanding) <= 1

\* ------------------------------------------------------------------- C2
\* A confirmed message of the exchange the pending entry m belongs to.
Confirms(serverMessages, m) ==
    \E c \in Range(serverMessages) : ~IsTemp(c) /\ c.xid = m.xid /\ c.role = m.role

\* C2: role-based reconciliation is id-based reconciliation: whenever a
\* detail response is about to be merged, mergePending drops a pending entry
\* of that session (from the merged list; from the buffer, when it clears it)
\* only if the response holds the confirmed message of the same exchange.
C2_RoleIsIdentity ==
    \A g \in BagToSet(gets) :
        LET r == mergePending([mem |-> pendingMessages, disk |-> storage],
                              normalizeSession(g.sid, g.msgs))
        IN \A m \in Range(Buffer(pendingMessages, g.sid)) :
              (m \notin Range(r.session.messages) \/ m \notin Range(Buffer(r.pq.mem, g.sid)))
                  => Confirms(g.msgs, m)

\* ------------------------------------------------------------------- C3
RolesOf(msgs) == {m.role : m \in Range(msgs)}

\* The pending entries of a session that a server list leaves standing.
Survivors(mem, id, serverMessages) ==
    LET Stands(m) == m.role \notin RolesOf(serverMessages)
    IN SelectSeq(Buffer(mem, id), Stands)

\* What a detail response g, applied by loadSessionDetail, leaves behind.
C3_Post(g) ==
    LET srv == normalizeSession(g.sid, g.msgs).messages
        buf == Buffer(pendingMessages, g.sid)
        left == Survivors(pendingMessages, g.sid, srv)
        after == Displayed(sessions', g.sid)
    IN /\ (buf # <<>> /\ {"user", "assistant"} \subseteq RolesOf(srv)) =>
            /\ after = srv
            /\ \A m \in Range(after) : ~IsTemp(m) /\ ~m.pending
            /\ KeyOf(g.sid) \notin DOMAIN pendingMessages'
            /\ \A m \in Range(buf) : Confirms(srv, m) =>
                   Cardinality({j \in 1..Len(after) :
                       after[j].xid = m.xid /\ after[j].role = m.role}) = 1
       /\ left # <<>> =>
            /\ IsSorted(after)
            /\ Len(after) = Len(srv) + Len(left)
            /\ Range(after) = Range(srv) \cup Range(left)

\* C3: merging a fetched detail that holds a confirmed user and a confirmed
\* assistant message with a non-empty pending buffer displays the server's
\* messages alone (one user and one assistant message per confirmed exchange,
\* no pending entry) and removes the session's buffer; when pending entries
\* survive the role filter they are merged into the server list and the
\* result is sorted by created_at.
C3_MergeReconciles == [][\A g \in BagToSet(gets) : DetailOk(g) => C3_Post(g)]_vars

\* A poll's response with both confirmed messages was merged while the send
\* was still awaiting its POST: the buffer is gone, the pair is displayed.
C3_Witness ==
    /\ Len(sends) = 1
    /\ sends[1].pc = "post"
    /\ KeyOf(sends[1].sid) \notin DOMAIN pendingMessages
    /\ storage # NullItem
    /\ Displayed(sessions, sends[1].sid) =
           <<SrvUser(sends[1].now, skew), SrvAssistant(sends[1].now, skew)>>

\* ------------------------------------------------------------------- C4
\* C4: every session's messages list is sorted non-decreasing by created_at.
C4_Ordered == \A i \in 1..Len(sessions) : IsSorted(sessions[i].messages)

\* ------------------------------------------------------------------- C5
TempPair(now) == <<TempUser(now), TempAssistant(now)>>

\* handleSend in an empty active session inserts the two temporary entries.
C5_Immediate ==
    /\ (/\ HandleSend
        /\ HasSession(sessions, currentSessionId)
        /\ Displayed(sessions, currentSessionId) = <<>>
        /\ Buffer(pendingMessages, currentSessionId) = <<>>) =>
            /\ Displayed(sessions', currentSessionId) = TempPair(clock)
            /\ Buffer(pendingMessages', currentSessionId) = TempPair(clock)
            /\ TempPair(clock)[2].pending
    /\ \A i \in 1..Len(sends) : CreateSessionDone(i) =>
            /\ Displayed(sessions', sends'[i].sid) = TempPair(clock)
            /\ Buffer(pendingMessages', sends'[i].sid) = TempPair(clock)

\* handleSend's own re-fetch, holding a confirmed user and assistant message.
C5_Resolved ==
    \A g \in BagToSet(gets) :
        (/\ g.owner = "sendok"
         /\ DetailOk(g)
         /\ {"user", "assistant"} \subseteq RolesOf(g.msgs)) =>
            /\ Displayed(sessions', g.sid) = normalizeSession(g.sid, g.msgs).messages
            /\ g.msgs = <<SrvUser(sends[g.inst].now, skew),
                          SrvAssistant(sends[g.inst].now, skew)>> =>
                   Displayed(sessions', g.sid) = g.msgs
            /\ Buffer(pendingMessages', g.sid) = <<>>
            /\ ~isSending'
            /\ ~chatInputDisabled' /\ ~btnSendDisabled'
            /\ pendingPollTimer' = 0 /\ activeTimers' = {}

\* C5: happy-path send: a send in an empty active session at once displays
\* and buffers a temporary user message and a temporary assistant placeholder
\* (_pending = true); when its POST has resolved and its re-fetched detail
\* holds a confirmed user and assistant message, the displayed list is the
\* confirmed messages, the session's buffer is empty, the send lock is
\* released and the polling timer is stopped.
C5_HappyPath == [][C5_Immediate /\ C5_Resolved]_vars

\* A send that began in an empty session has completed on the happy path.
C5_Witness ==
    \E i \in 1..Len(sends) :
        /\ sends[i].pc = "done"
        /\ sends[i].srv = "both"
        /\ currentSessionId = sends[i].sid
        /\ Displayed(sessions, sends[i].sid) =
               <<SrvUser(sends[i].now, skew), SrvAssistant(sends[i].now, skew)>>
        /\ Buffer(pendingMessages, sends[i].sid) = <<>>
        /\ ~isSending /\ ~chatInputDisabled
        /\ TimerStopped

\* ------------------------------------------------------------------- C6
\* C6: when the POST of a send rejects, then once handleSend has finished the
\* temporary assistant placeholder is not displayed, the temporary user
\* message is, an alert was shown, and the send lock is released with the
\* input enabled.
C6_SendFailure ==
    [][\A g \in BagToSet(gets) :
        (g.owner = "sendfail" /\ (DetailOk(g) \/ DetailFailed(g))) =>
            LET sid == sends[g.inst].sid
                now == sends[g.inst].now
            IN /\ TempAssistant(now) \notin Range(Displayed(sessions', sid))
               /\ TempUser(now) \in Range(Displayed(sessions', sid))
               /\ popupAlert'
               /\ ~isSending'
               /\ ~chatInputDisabled' /\ ~btnSendDisabled']_vars

\* ------------------------------------------------------------------- C7
\* One page load with a single send and no sidebar click: the behaviours of
\* Spec in which the user sends once and then only waits.
OneSendNext ==
    \/ InitSessionsLoaded
    \/ InitSessionsFailed
    \/ (Len(sends) = 0 /\ HandleSendNoSession)
    \/ \E i \in 1..Len(sends) : CreateSessionDone(i)
    \/ \E i \in 1..Len(sends) : CreateSessionFailed(i)
    \/ \E i \in 1..Len(sends) : ServerStoreUser(i)
    \/ \E i \in 1..Len(sends) : ServerStoreAssistant(i)
    \/ \E i \in 1..Len(sends) : PostOk(i)
    \/ \E i \in 1..Len(sends) : PostFail(i)
    \/ \E t \in activeTimers : PollStop(t)
    \/ \E t \in activeTimers : PollFetch(t)
    \/ \E g \in BagToSet(gets) : DetailOk(g)
    \/ \E g \in BagToSet(gets) : DetailFailed(g)

\* The network keeps completing requests, the backend keeps working and the
\* interval timer keeps firing; nothing obliges the user to act or a request
\* to fail.
FairSpec ==
    /\ Init
    /\ [][OneSendNext]_vars
    /\ WF_vars(InitSessionsLoaded)
    /\ WF_vars(\E i \in 1..Len(sends) : CreateSessionDone(i))
    /\ WF_vars(\E i \in 1..Len(sends) : ServerStoreUser(i))
    /\ WF_vars(\E i \in 1..Len(sends) : ServerStoreAssistant(i))
    /\ WF_vars(\E i \in 1..Len(sends) : PostOk(i))
    /\ WF_vars(\E t \in activeTimers : PollStop(t))
    /\ WF_vars(\E t \in activeTimers : PollFetch(t))
    /\ SF_vars(\E g \in BagToSet(gets) : DetailOk(g))

Unlocked == ~isSending /\ ~chatInputDisabled /\ ~btnSendDisabled

\* C7: the UI is never left permanently locked after a network/API error:
\* once a send or a detail load has failed (an alert was shown), the chat
\* input eventually is enabled with the send lock released.
C7_NeverStuck == [](popupAlert => <>Unlocked)

\* ------------------------------------------------------------------- C8
\* The page was reloaded while every send so far was under way, and init()
\* is through: what the buffer holds, it read back from storage.
ResumedWithPending ==
    /\ reloads > 0
    /\ pcInit = "done"
    /\ Len(sends) > 0
    /\ \A i \in 1..Len(sends) : sends[i].pc = "dead"
    /\ hasAnyPending(pendingMessages)

\* C8: pending survival across reload: a page that initialised with a
\* non-empty pending buffer read back from storage has its polling timer
\* running for as long as entries are buffered.
C8_PollingSurvives == ResumedWithPending => TimerRunning

\* ------------------------------------------------------------------- C9
\* Re-reading the stored item reconstructs the map in memory; count and
\* hasAny agree with what is stored.
C9_Persisted ==
    /\ loadPendingFromStorage(storage) = pendingMessages
    /\ storage # NullItem =>
         /\ \A id \in 1..(MaxSessions + 1) :
               getPendingCount(pendingMessages, id) =
                   IF \E j \in 1..Len(storage) : storage[j].key = KeyOf(id)
                   THEN Len((storage[CHOOSE j \in 1..Len(storage) :
                                storage[j].key = KeyOf(id)]).value)
                   ELSE 0
         /\ hasAnyPending(pendingMessages) <=>
               \E j \in 1..Len(storage) : storage[j].value # <<>>
    /\ storage = NullItem =>
         /\ ~hasAnyPending(pendingMessages)
         /\ \A id \in 1..(MaxSessions + 1) : getPendingCount(pendingMessages, id) = 0

\* A step changes the buffer of one session at most: it appends to it
\* (creating it) or removes it.
C9_Frame ==
    pendingMessages' # pendingMessages =>
        \E id \in 1..(MaxSessions + 1) :
            LET key == KeyOf(id)
            IN /\ \A k \in (DOMAIN pendingMessages \cup DOMAIN pendingMessages') \ {key} :
                     /\ k \in DOMAIN pendingMessages /\ k \in DOMAIN pendingMessages'
                     /\ pendingMessages'[k] = pendingMessages[k]
               /\ \/ key \notin DOMAIN pendingMessages'
                  \/ /\ Len(Buffer(pendingMessages', id)) > Len(Buffer(pendingMessages, id))
                     /\ SubSeq(Buffer(pendingMessages', id), 1,
                               Len(Buffer(pendingMessages, id))) = Buffer(pendingMessages, id)

Confirmed(msgs) == {m \in Range(msgs) : ~IsTemp(m)}

\* C10: applying a detail response is harmless whatever the order responses
\* arrive in: every confirmed server message that was displayed for the
\* session is still displayed after the response is applied.
C10_StaleHarmless ==
    [][\A g \in BagToSet(gets) :
        DetailOk(g) =>
            Confirmed(Displayed(sessions, g.sid)) \subseteq
                Confirmed(Displayed(sessions', g.sid))]_vars

\* ------------------------------------------------------------------ C16
\* C16: at most one pending-poll timer exists at any time, and every
\* running interval timer is the one pendingPollTimer refers to.
C16_OneTimer ==
    /\ Cardinality(activeTimers) <= 1
    /\ \A t \in activeTimers : t = pendingPollTimer

\* Polling was started for a first send, and again for a second one while
\* the page lives on; one timer runs.
C16_Witness ==
    /\ reloads = 0
    /\ Len(sends) = 2
    /\ sends[1].pc = "done"
    /\ sends[2].pc = "post"
    /\ Cardinality(DOMAIN pendingMessages) = 2
    /\ TimerRunning

\* ------------------------------------------------------------------ C17
\* No handler of the page is between two of its awaits.
Quiescent ==
    /\ pcInit = "done"
    /\ gets = EmptyBag
    /\ \A i \in 1..Len(sends) : sends[i].pc \in {"done", "dead"}

\* C17: in every state reached after an operation completes, if the
\* polling timer is active then some session has pending entries and a
\* session is active.
C17_TimerNeedsPending ==
    (Quiescent /\ activeTimers # {}) =>
        (hasAnyPending(pendingMessages) /\ currentSessionId # 0)

\* ------------------------------------------------------------------ C18
\* C18: in every state between handler steps the chat input and the send
\* button are disabled if and only if isSending is true.
C18_Lockstep ==
    /\ chatInputDisabled = isSending
    /\ btnSendDisabled = isSending

\* ------------------------------------------------------------------ C19
IdsOf(list) == [i \in 1..Len(list) |-> list[i].id]

CountOf(list, id) == Cardinality({i \in 1..Len(list) : list[i].id = id})

Engaged(p) == p.sending /\ p.chat /\ p.btn /\ p.timer # 0 /\ p.active = {p.timer}

Disengaged(p) == ~p.sending /\ ~p.chat /\ ~p.btn /\ p.timer = 0 /\ p.active = {}

\* What loadSessionDetail(g.sid) makes of the page when its fetch succeeds.
C19_Ok(g) ==
    \E p \in {loadSessionDetail(Page, g.sid, g.msgs)} :
        /\ CountOf(p.sessions, g.sid) = 1
        /\ IF HasSession(sessions, g.sid)
           THEN IdsOf(p.sessions) = IdsOf(sessions)
           ELSE /\ Head(p.sessions).id = g.sid
                /\ Tail(p.sessions) = sessions
        /\ \A i \in 1..Len(p.sessions) :
              p.sessions[i].id # g.sid => p.sessions[i] \in Range(sessions)
        /\ p.cur = g.sid
        /\ IF getPendingCount(p.pq.mem, g.sid) > 0 THEN Engaged(p) ELSE Disengaged(p)
        /\ (g.owner = "switch") =>
              /\ sessions' = p.sessions
              /\ currentSessionId' = p.cur
              /\ isSending' = p.sending
              /\ pendingPollTimer' = p.timer

\* C19: loadSessionDetail(id) on success leaves exactly one entry with
\* that id (replaced in place, or prepended when there was none), makes it
\* the active session, and engages the locked + polling state if the
\* session has pending entries after the merge, else disengages it; on a
\* fetch failure the collection and the active session are unchanged.
C19_LoadSessionDetail ==
    [][\A g \in BagToSet(gets) :
          /\ DetailOk(g) => C19_Ok(g)
          /\ DetailFailed(g) =>
                (sessions' = sessions /\ currentSessionId' = currentSessionId)]_vars

\* The answer to a sidebar click has been applied: the clicked session,
\* second in the collection, was replaced in place and is active.
C19_Witness ==
    /\ reloads = 0
    /\ switches = 1
    /\ gets = EmptyBag
    /\ ~popupAlert
    /\ Len(sessions) = 2
    /\ currentSessionId = sessions[2].id
    /\ Disengaged(Page)

\* ------------------------------------------------------------------ C11
\* Auth.isLoggedIn() in the state a step leads to.
LoggedInAfter ==
    AuthIsLoggedIn([sa |-> sessionAuthenticated', ls |-> local',
                    popup |-> loginPopup', calls |-> calls'])

\* C11: no protected action executes unless the gate passed first: a step
\* that starts a handleSend invocation (which creates the session and
\* posts the message), issues the new-chat call or opens the file picker
\* is taken where requireLogin() returns true, the account deletion call is
\* issued only on a My Page whose gate passed at load, and a handler whose
\* gate fails issues no call and changes no chat state.
C11_Gated ==
    [][/\ Len(sends') > Len(sends) => requireLogin(AuthState).ok
       /\ ("newchat" \in calls' \ calls) => requireLogin(AuthState).ok
       /\ (pickerOpen' /\ ~pickerOpen) => requireLogin(AuthState).ok
       /\ ("delete" \in calls' \ calls) => (gated /\ AuthIsLoggedIn(AuthState))
       /\ Denied => (calls' = calls /\ pickerOpen' = pickerOpen
                      /\ UNCHANGED chatVars)]_vars

\* A handler was turned away while init awaited syncSession; once the
\* session was confirmed the picker was opened and a send began.
C11_Witness ==
    /\ loginPopup
    /\ pickerOpen
    /\ Len(sends) = 1
    /\ sends[1].pc = "create"

\* ------------------------------------------------------------------ C12
\* What requireLogin() does in the current state.
C12_Gate ==
    \E r \in {requireLogin(AuthState)} :
        IF ~sessionAuthenticated /\ local["isLoggedIn"] = Absent
        THEN /\ ~r.ok
             /\ r.auth.popup
             /\ r.auth.calls = calls
             /\ r.auth.ls = local
             /\ r.auth.sa = sessionAuthenticated
        ELSE /\ r.ok
             /\ r.auth = AuthState

\* C12: requireLogin() is a synchronous local gate: for a user who is not
\* authenticated it returns false and shows the login prompt without a
\* network call; for an authenticated user it returns true and changes
\* nothing.
C12_RequireLogin ==
    /\ []C12_Gate
    /\ [][Denied => (loginPopup' /\ calls' = calls /\ local' = local)]_vars

\* A handler of the chat page was turned away while only init's session
\* call is in flight.
C12_Witness ==
    /\ location = "chat"
    /\ pcInit = "sync"
    /\ loginPopup
    /\ calls = {"session"}
    /\ local = NoLocal
    /\ sends = <<>>

\* ------------------------------------------------------------------ C13
\* C13: syncSession fails closed: after the backend rejected the session or
\* the call failed, Auth.isLoggedIn() is false and init() of the chat page
\* treats the user as not logged in, whatever login flag was stored.
C13_FailsClosed ==
    [][(SyncRejected \/ SyncFailed) =>
          (~LoggedInAfter /\ ~isLoggedIn' /\ location' = "login")]_vars

\* ------------------------------------------------------------------ C14
\* C14: logout() always lets the user leave: whether its network call
\* succeeds or fails, the stored login flag, identity, preferences and
\* favorites are removed, the browser goes to the login page, and there
\* the user is anonymous.
C14_LogoutLeaves ==
    [][\A ok \in BOOLEAN : LogoutDone(ok) =>
          /\ \A k \in {"isLoggedIn", "userEmail", "userPreferences",
                        "favoriteProducts"} : local'[k] = Absent
          /\ location' = "login"
          /\ ~LoggedInAfter]_vars

\* The browser is on the login page with nothing stored although a message
\* was sent and the backend's session still stands: the logout call failed.
C14_Witness ==
    /\ location = "login"
    /\ local = NoLocal
    /\ serverSession
    /\ Len(sends) > 0

\* ------------------------------------------------------------------ C15
\* C15: after logout() the persisted pending-message map holds no entries,
\* so a chat page loaded afterwards starts with hasAny() false.
C15_LogoutClearsQueue ==
    [][\A ok \in BOOLEAN : LogoutDone(ok) =>
          ~hasAnyPending(loadPendingFromStorage(storage'))]_vars

\* ------------------------------------------------------------------ C20
\* The collection without the session id, the rest in its order.
Without(list, id) ==
    LET Other(s) == s.id # id IN SelectSeq(list, Other)

\* What deleteSession(id) leaves when its deletion call succeeded.
C20_Deleted(id) ==
    /\ ~HasSession(sessions', id)
    /\ sessions' = Without(sessions, id)
    /\ IF currentSessionId = id
       THEN IF Len(sessions') > 0
            THEN /\ currentSessionId' = sessions'[1].id
                 /\ \E g \in BagToSet(gets') :
                       g.owner = "delete" /\ g.sid = sessions'[1].id
            ELSE currentSessionId' = 0
       ELSE currentSessionId' = currentSessionId

\* What deleteSession leaves when the detail load that ends it has returned.
C20_Returned(g) ==
    /\ currentSessionId' = g.sid
    /\ ~HasSession(sessions', g.inst)

\* C20: after a successful deletion call the session is absent from the
\* collection; if it was the active session the first remaining session
\* becomes active and its detail is loaded, or no session is active if none
\* remain; if it was not active the active session is unchanged; if the
\* deletion call fails, the collection and the active session are unchanged.
C20_DeleteSession ==
    [][/\ \A id \in 1..MaxSessions :
            /\ DeleteOk(id) => C20_Deleted(id)
            /\ DeleteFailed(id) =>
                  (sessions' = sessions /\ currentSessionId' = currentSessionId)
       /\ \A g \in BagToSet(gets) :
            /\ (g.owner = "delete" /\ DetailOk(g)) => C20_Returned(g)
            /\ (g.owner = "delete" /\ DetailFailed(g)) =>
                  ~HasSession(sessions', g.inst)]_vars

\* ------------------------------------------------------------------ C26
\* C26: the active session changes only through a user selection, a session
\* creation, the deletion of the active session or a session-list load: the
\* response to a poll tick or a send that was issued for another session
\* than the one active now does not make that session active again.
C26_ActiveStays ==
    [][/\ \A g \in BagToSet(gets) :
            (/\ g.owner \in {"poll", "sendok", "sendfail"}
             /\ currentSessionId # 0
             /\ currentSessionId # g.sid
             /\ DetailOk(g)) => currentSessionId' = currentSessionId
       /\ \A i \in 1..Len(sends) :
            (/\ currentSessionId # 0
             /\ currentSessionId # sends[i].sid
             /\ PostOk(i)) => currentSessionId' = currentSessionId]_vars

\* ------------------------------------------------------------------ C27
\* C27: a deleted session does not reappear: once deleteSession has returned
\* after a successful call, no session the backend has deleted is in the
\* collection or active, whatever responses arrive later.
\* Every deleteSession has returned: no deletion call and no detail load of
\* a deleteSession is outstanding.
DeletesReturned ==
    /\ \A id \in 1..MaxSessions : DeleteCall(id) \notin calls
    /\ \A g \in BagToSet(gets) : g.owner # "delete"

C27_DeletedStaysGone ==
    DeletesReturned =>
        /\ \A i \in 1..Len(sessions) : sessions[i].id \in DOMAIN server
        /\ currentSessionId # 0 => currentSessionId \in DOMAIN server

\* ------------------------------------------------------------------ C28
\* C28: no orphan placeholder: where no send is in flight and the pending
\* buffer of a session is empty, the displayed messages of the session hold
\* no client-temporary message.
C28_NoOrphan ==
    (\A i \in 1..Len(sends) : sends[i].pc \in {"done", "dead"}) =>
        \A k \in 1..Len(sessions) :
            Buffer(pendingMessages, sessions[k].id) = <<>> =>
                \A j \in 1..Len(sessions[k].messages) :
                    /\ ~IsTemp(sessions[k].messages[j])
                    /\ ~sessions[k].messages[j].pending

\* ------------------------------------------------------------------ C29
\* C29: a send attaches an image file only if an image is selected for that
\* send: a handleSend that starts while no preview is shown and no file is
\* being read puts no file into the body of its POST.
C29_OnlySelected ==
    [][(HandleSend /\ uploadedImage = 0 /\ reader = {})
          => sends'[Len(sends')].image = 0]_vars

\* ------------------------------------------------------------------ C23
\* The policy as it is stated: length 6 to 16, two of the kinds letter,
\* digit and special, no character three times in a row, no three digits or
\* letters in a row that ascend or descend by one, no keyboard pattern.
Ordinal(c) ==
    IF IsDigit(c) THEN CHOOSE i \in 1..Len(Digits) : Digits[i] = c
    ELSE CHOOSE i \in 1..Len(LowerCase) : LowerCase[i] = toLowerCase(c)

Policy(pwd) ==
    /\ Len(pwd) >= 6
    /\ Len(pwd) <= 16
    /\ Cardinality({k \in {"letter", "digit", "special"} :
                      \E i \in 1..Len(pwd) :
                         CASE k = "letter" -> IsLetter(pwd[i])
                           [] k = "digit"  -> IsDigit(pwd[i])
                           [] OTHER        -> IsSpecial(pwd[i])}) >= 2
    /\ \A i \in 1..(Len(pwd) - 2) :
          /\ ~(pwd[i] = pwd[i + 1] /\ pwd[i + 1] = pwd[i + 2])
          /\ \A step \in {1, -1} :
                ~(/\ \/ \A j \in i..(i + 2) : IsDigit(pwd[j])
                     \/ \A j \in i..(i + 2) : IsLetter(pwd[j])
                  /\ Ordinal(pwd[i + 1]) = Ordinal(pwd[i]) + step
                  /\ Ordinal(pwd[i + 2]) = Ordinal(pwd[i + 1]) + step)
    /\ ~ContainsOneOf([i \in 1..Len(pwd) |-> toLowerCase(pwd[i])],
                      {"qwer", "asdf", "zxcv"})

\* C23: validatePassword accepts a candidate exactly when it satisfies the
\* policy; a candidate of length 5 gets the length message and "aaaaaa1"
\* the message about repeated letters.  It is read off the
\* submit of the password-change page with the other fields in order.
C23_ExactlyPolicy ==
    [][(/\ PasswordSubmit
        /\ pageState.currentPassword = OldPassword
        /\ pageState.confirmPassword = pageState.newPassword)
         => LET pwd == pageState.newPassword
                msg == pageState'.error
            IN /\ (msg = NoError) <=> Policy(pwd)
               /\ Len(pwd) = 5 => msg = LengthMessage
               /\ pwd = <<"a", "a", "a", "a", "a", "a", "1">>
                     => msg = LetterMessage
      ]_vars

\* The styles the stored preferences hold.
StoredStyles == StylesOf(StateGet(local, "userPreferences", JSNull))

NoDuplicate(l) == \A i, j \in 1..Len(l) : l[i] = l[j] => i = j

\* C24: in the preference wizard and on the reference board the list of
\* selected styles has at most 3 entries and no duplicate, the preferences
\* the wizard writes hold between 1 and 3 styles, and a toggle of a selected
\* style removes it from the list.
C24_AtMostThree ==
    /\ [](pageState.page \in {"preference", "board"}
            => /\ Len(pageState.selectedStyles) <= 3
               /\ NoDuplicate(pageState.selectedStyles))
    /\ [][CompleteClick /\ location' = "board"
            => /\ Len(StoredStyles') \in 1..3
               /\ StoredStyles' = pageState.selectedStyles]_vars
    /\ [][\A id \in Styles :
            /\ pageState.page \in {"preference", "board"}
            /\ id \in Range(pageState.selectedStyles)
            /\ (ToggleStyle(id) \/ BoardToggleStyle(id))
            => /\ id \notin Range(pageState'.selectedStyles)
               /\ Len(pageState'.selectedStyles) = Len(pageState.selectedStyles) - 1]_vars

\* The board shows three stored styles, one of which the user has toggled
\* off and another style on.
C24_Witness ==
    /\ pageState.page = "board"
    /\ Len(StoredStyles) = 3
    /\ Len(pageState.selectedStyles) = 3
    /\ Range(pageState.selectedStyles) # Range(StoredStyles)

\* C25: a page that loads over a stored value that is not parseable JSON
\* reads the caller's empty default: the empty pending map on the chat page,
\* no favorites and no preferences on My Page and on the reference board,
\* and a login flag that counts as not logged in.
C25_EmptyDefault ==
    [][\A loc \in {"chat", "mypage", "board"} :
         Visit(loc) =>
           /\ (loc = "chat" /\ storage = CorruptItem)
                => pendingMessages' = EmptyMap
           /\ Unparseable(local["isLoggedIn"]) => ~gated'
           /\ (pageState'.page = "mypage"
                 /\ Unparseable(local["favoriteProducts"]))
                => pageState'.favoriteProducts = EmptyArray
           /\ (pageState'.page \in {"mypage", "board"}
                 /\ Unparseable(local["userPreferences"]))
                => pageState'.userPreferences = JSNull]_vars

\* The part of C25 the code keeps: the pending map and the login flag.
C25_PendingAndFlag ==
    [][\A loc \in {"chat", "mypage", "board"} :
         Visit(loc) =>
           /\ (loc = "chat" /\ storage = CorruptItem)
                => pendingMessages' = EmptyMap
           /\ Unparseable(local["isLoggedIn"]) => ~gated']_vars

C30_VerifiedEmail ==
    [][\A email \in EmailTexts, pwd \in SignupPasswords :
         CompleteCall(email, pwd, pwd) \in calls' \ calls
           => /\ pageState.verified # <<>>
              /\ email = pageState.verified]_vars

\* The part of C30 the code keeps: a complete request follows a verify
\* success.
C30_AfterVerify ==
    [][\A email \in EmailTexts, pwd \in SignupPasswords :
         CompleteCall(email, pwd, pwd) \in calls' \ calls
           => pageState.verified # <<>>]_vars

\* What handleSend leaves alone when it rejects a text.
RejectedSend ==
    /\ sends' = sends
    /\ gets' = gets
    /\ calls' = calls
    /\ sessions' = sessions
    /\ pendingMessages' = pendingMessages
    /\ ~isSending'
    /\ ~chatInputDisabled'

\* The handlers that reject an input issue no request: handleSend of a text
\* longer than 200 characters, which also inserts nothing and releases the
\* lock, handleImageUpload of a file that is no JPEG or PNG or is larger than
\* 10MB, the send-code click with a malformed e-mail, the clicks on complete
\* and on the password-change button with a password that fails the policy
\* or differs from its confirmation.
C21_Rejections ==
    /\ [][\A length \in TextLengths :
            (HandleSendOf(length) /\ length > 200) => RejectedSend]_vars
    /\ [][\A f \in 1..Len(Files) :
            (/\ HandleImageUpload(f)
             /\ \/ Files[f].type \notin {"image/jpeg", "image/png"}
                \/ Files[f].size > 10 * 1024 * 1024)
              => /\ uploadedFile' = uploadedFile
                 /\ sends' = sends
                 /\ calls' = calls]_vars
    /\ [](\A i \in 1..Len(sends) :
             sends[i].image # 0
               => /\ Files[sends[i].image].type \in {"image/jpeg", "image/png"}
                  /\ Files[sends[i].image].size <= 10 * 1024 * 1024)
    /\ [][\A value \in EmailTexts :
            (SendCodeClick(value) /\ ~validateEmail(value))
              => calls' = calls]_vars
    /\ [][(/\ CompleteSignUpClick
           /\ \/ validatePassword(pageState.password) # ""
              \/ pageState.password # pageState.confirmPassword)
            => calls' = calls]_vars
    /\ [][(/\ PasswordSubmit
           /\ \/ validatePassword(pageState.newPassword) # ""
              \/ pageState.newPassword # pageState.confirmPassword)
            => calls' = calls]_vars

\* The requests of the signup wizard in flight carry a well-formed e-mail.
WellFormedCalls ==
    \A email \in EmailTexts :
      /\ SendCall(email) \in calls => validateEmail(email)
      /\ \A code \in Codes :
           VerifyCall(email, code) \in calls => validateEmail(email)
      /\ \A pwd, pwd2 \in SignupPasswords :
           CompleteCall(email, pwd, pwd2) \in calls => validateEmail(email)

\* C21: an input that fails the client-side validation never reaches the
\* network: the handlers that reject an input issue no request (a rejected
\* handleSend also inserts nothing and releases the send lock), no message
\* carries a rejected image, and no request carries a malformed e-mail.
C21_NeverReachNetwork == C21_Rejections /\ []WellFormedCalls

====
